---------------------------- MODULE Spec2Model ----------------------------
(***************************************************************************)
(* Localdemy: the folder-load pipeline of LocaldemyWindow (window.py), the  *)
(* library model it builds, and the subtitle resolution of VideoPlayer      *)
(* (video_player.py).                                                       *)
(*                                                                          *)
(* Names are sequences of one-character strings, paths are sequences of     *)
(* names (<<>> is "/"), so that extensions, hidden-name tests, case folding *)
(* and sorting are computed the way the Python code computes them.          *)
(***************************************************************************)
EXTENDS Integers, Sequences, FiniteSets, TLC

(***************************************************************************)
(* Characters and strings                                                   *)
(***************************************************************************)

\* The characters used by the model, in ascending code point order
\* (Python compares str by code point).
Alphabet ==
    << " ", "-", ".", "0", "1", "2", "3", "4", "5", "6", "7", "8", "9",
       "A", "B", "C", "L", "M", "P", "R", "S", "T", "V",
       "_",
       "a", "b", "c", "d", "e", "f", "g", "h", "i", "j", "k", "l", "m",
       "n", "o", "p", "q", "r", "s", "t", "u", "v", "w", "x", "y", "z" >>

Ord(c) == CHOOSE i \in 1..Len(Alphabet) : Alphabet[i] = c

\* str.lower() on one character.
LowerChar(c) ==
    CASE c = "A" -> "a" [] c = "B" -> "b" [] c = "C" -> "c" [] c = "L" -> "l"
      [] c = "M" -> "m" [] c = "P" -> "p" [] c = "R" -> "r" [] c = "S" -> "s"
      [] c = "T" -> "t" [] c = "V" -> "v" [] OTHER -> c

\* str.lower()
Lower(s) == [i \in 1..Len(s) |-> LowerChar(s[i])]

\* Python's str < str: lexicographic by code point, a proper prefix is smaller.
RECURSIVE StrLess(_, _)
StrLess(a, b) ==
    IF b = <<>> THEN FALSE
    ELSE IF a = <<>> THEN TRUE
    ELSE IF a[1] = b[1] THEN StrLess(Tail(a), Tail(b))
    ELSE Ord(a[1]) < Ord(b[1])

\* str.startswith
StartsWith(s, p) == Len(s) >= Len(p) /\ SubSeq(s, 1, Len(p)) = p

\* `p in s` for two str: substring test.
Contains(s, p) ==
    \E i \in 1..(Len(s) - Len(p) + 1) : SubSeq(s, i, i + Len(p) - 1) = p

Range(f) == { f[i] : i \in DOMAIN f }

\* The characters str.strip() removes.
Whitespace == { " ", "\n", "\r", "\t" }

\* str.strip(): remove leading and trailing whitespace.
RECURSIVE LStrip(_)
LStrip(s) == IF s # <<>> /\ s[1] \in Whitespace THEN LStrip(Tail(s)) ELSE s
RECURSIVE RStrip(_)
RStrip(s) ==
    IF s # <<>> /\ s[Len(s)] \in Whitespace
    THEN RStrip(SubSeq(s, 1, Len(s) - 1)) ELSE s
Strip(s) == RStrip(LStrip(s))

\* The index of the first occurrence of sep in s, 0 if there is none
\* (str.find(sep) + 1).
find(s, sep) ==
    LET hits == { i \in 1..(Len(s) - Len(sep) + 1) : SubSeq(s, i, i + Len(sep) - 1) = sep }
    IN  IF hits = {} THEN 0 ELSE CHOOSE i \in hits : \A j \in hits : i <= j

\* str.replace(old, new): every non-overlapping occurrence, left to right.
RECURSIVE replace(_, _, _)
replace(s, old, new) ==
    LET i == find(s, old)
    IN  IF i = 0 THEN s
        ELSE SubSeq(s, 1, i - 1) \o new
             \o replace(SubSeq(s, i + Len(old), Len(s)), old, new)

\* str.split(sep) for a non-empty separator: the pieces between the
\* occurrences of sep, found left to right without overlap.
RECURSIVE split(_, _)
split(s, sep) ==
    LET i == find(s, sep)
    IN  IF i = 0 THEN << s >>
        ELSE << SubSeq(s, 1, i - 1) >> \o split(SubSeq(s, i + Len(sep), Len(s)), sep)

\* sep.join(parts)
RECURSIVE join(_, _)
join(sep, parts) ==
    IF parts = <<>> THEN <<>>
    ELSE IF Len(parts) = 1 THEN parts[1]
    ELSE parts[1] \o sep \o join(sep, Tail(parts))

Digits == << "0", "1", "2", "3", "4", "5", "6", "7", "8", "9" >>
DigitValue(c) == (CHOOSE i \in 1..10 : Digits[i] = c) - 1
IsDigits(s) == s # <<>> /\ \A i \in 1..Len(s) : s[i] \in Range(Digits)

\* The number a string of decimal digits denotes.
RECURSIVE DigitsValue(_)
DigitsValue(s) ==
    IF s = <<>> THEN 0
    ELSE 10 * DigitsValue(SubSeq(s, 1, Len(s) - 1)) + DigitValue(s[Len(s)])

\* Index of the last "." of s, 0 if there is none (str.rfind('.') + 1).
RECURSIVE LastDot(_, _)
LastDot(s, i) ==
    IF i = 0 THEN 0 ELSE IF s[i] = "." THEN i ELSE LastDot(s, i - 1)

\* os.path.splitext on a single path component: the extension starts at the
\* last dot, unless only dots precede it (a leading-dot name has no extension).
splitext(name) ==
    LET d == LastDot(name, Len(name))
    IN  IF d > 0 /\ \E j \in 1..(d - 1) : name[j] # "."
        THEN << SubSeq(name, 1, d - 1), SubSeq(name, d, Len(name)) >>
        ELSE << name, <<>> >>

\* sorted(): a stable sort of <<key, value>> pairs by key under StrLess. The
\* elements are inserted from the last to the first, each before the first
\* element that is not smaller than it, so equal keys keep their input order.
RECURSIVE InsertSorted(_, _)
InsertSorted(x, ys) ==
    IF ys = <<>> THEN << x >>
    ELSE IF ~StrLess(ys[1][1], x[1]) THEN << x >> \o ys
    ELSE << ys[1] >> \o InsertSorted(x, Tail(ys))

RECURSIVE SortPairs(_)
SortPairs(ps) ==
    IF ps = <<>> THEN <<>>
    ELSE InsertSorted(ps[1], SortPairs(Tail(ps)))

\* sorted(names): plain str order (case-sensitive).
sorted(names) ==
    LET ps == SortPairs([i \in 1..Len(names) |-> << names[i], names[i] >>])
    IN  [i \in 1..Len(ps) |-> ps[i][2]]

\* sorted(files, key=lambda x: x[1].lower()) for (file_path, file_name) entries.
sorted_by_lower_name(files) ==
    LET ps == SortPairs([i \in 1..Len(files) |-> << Lower(files[i].name), files[i] >>])
    IN  [i \in 1..Len(ps) |-> ps[i][2]]

\* A set as a sequence in some order.
RECURSIVE SetToSeq(_)
SetToSeq(S) ==
    IF S = {} THEN <<>>
    ELSE LET x == CHOOSE y \in S : TRUE IN << x >> \o SetToSeq(S \ {x})

\* [x for x in xs if keep[x]]
RECURSIVE Filter(_, _)
Filter(xs, keep) ==
    IF xs = <<>> THEN <<>>
    ELSE (IF xs[1] \in keep THEN << xs[1] >> ELSE <<>>) \o Filter(Tail(xs), keep)

(***************************************************************************)
(* Folder scan: scan_folder_thread's walk, one directory at a time          *)
(***************************************************************************)

VIDEO_EXTENSIONS ==
    { <<".", "m", "p", "4">>, <<".", "m", "k", "v">>, <<".", "a", "v", "i">>,
      <<".", "m", "o", "v">>, <<".", "w", "m", "v">>, <<".", "f", "l", "v">>,
      <<".", "w", "e", "b", "m">>, <<".", "m", "4", "v">>, <<".", "m", "p", "g">>,
      <<".", "m", "p", "e", "g">>, <<".", "3", "g", "p">> }

\* The dict key under which a folder's own video files are stored.
FILES_KEY == << "_", "f", "i", "l", "e", "s" >>

\* folder_structure is a nested dict. It is kept flat: a function from key
\* paths to nodes, a node being a dict (its entries are the key paths one
\* longer) or a list of (file_path, file_name) entries.
DictNode == [kind |-> "dict"]
ListNode(items) == [kind |-> "list", items |-> items]
EmptyStructure == (<<>> :> DictNode)

\* The outcome of a step that raised an exception.
Raised == [ok |-> FALSE]

\* dict.keys() of the dict at key path p.
Keys(s, p) ==
    { q[Len(q)] : q \in { r \in DOMAIN s : Len(r) = Len(p) + 1
                                           /\ SubSeq(r, 1, Len(p)) = p } }

\* window.py 536-540: walk from the root dict down the relative path,
\* creating missing dicts. A level that is a list (the "_files" bucket reached
\* through a directory named _files) cannot be indexed by a str: TypeError.
RECURSIVE navigate(_, _, _)
navigate(s, cur, parts) ==
    IF parts = <<>> THEN [ok |-> TRUE, s |-> s, cur |-> cur]
    ELSE IF s[cur].kind = "list" THEN Raised
    ELSE LET child == Append(cur, parts[1])
             s2 == IF child \in DOMAIN s THEN s ELSE (child :> DictNode) @@ s
         IN  navigate(s2, child, Tail(parts))

\* window.py 543-550: append each video file of the directory to the
\* "_files" list of the current level.
RECURSIVE add_files(_, _, _, _)
add_files(s, cur, dir, video_files) ==
    IF video_files = <<>> THEN [ok |-> TRUE, s |-> s]
    ELSE IF s[cur].kind = "list" THEN Raised
    ELSE LET key == Append(cur, FILES_KEY)
             s2 == IF key \in DOMAIN s THEN s ELSE (key :> ListNode(<<>>)) @@ s
             entry == [path |-> Append(dir, video_files[1]), name |-> video_files[1]]
         IN  IF s2[key].kind # "list" THEN Raised
             ELSE add_files([s2 EXCEPT ![key] = ListNode(Append(s2[key].items, entry))],
                            cur, dir, Tail(video_files))

\* window.py 520: dirs[:] = [d for d in dirs if not d.startswith('.')]
visible_dirs(dirs) ==
    Filter(dirs, { d \in Range(dirs) : ~StartsWith(d, << "." >>) })

\* window.py 523: the files whose lower-cased extension is a video extension.
video_files_of(files) ==
    Filter(files, { f \in Range(files) : Lower(splitext(f)[2]) \in VIDEO_EXTENSIONS })

\* window.py 518-550: the body of the os.walk loop for directory dir of the
\* scan rooted at root, up to (not including) the cancellation check.
visit_dir(fsys, root, dir, s) ==
    LET parts == SubSeq(dir, Len(root) + 1, Len(dir))
        nav == navigate(s, <<>>, parts)
    IN  IF ~nav.ok THEN Raised
        ELSE add_files(nav.s, nav.cur, dir, video_files_of(fsys[dir].files))

\* os.walk, top-down: the directories still to visit after dir, its pruned
\* subdirectories first, in listing order.
walk_next(fsys, dir, todo) ==
    LET sub == visible_dirs(fsys[dir].dirs)
    IN  [i \in 1..Len(sub) |-> Append(dir, sub[i])] \o todo

(***************************************************************************)
(* Library rows: build_folder_model                                         *)
(***************************************************************************)

VARIABLES
    builds                   \* the rows each completed build_folder_model installed

\* The "folder" emoji and the blank that prefix a folder row's title.
FolderIcon == << "[folder]", " " >>
RootFilesName == << "R", "o", "o", "t", " ", "F", "i", "l", "e", "s" >>

\* library.py 291-304: VideoItem(video_id, title, details, duration, progress,
\* file_path); a folder row also gets is_folder and folder_name.
VideoItem(video_id, title, details, progress, file_path, indent_level) ==
    [video_id |-> video_id, title |-> title, details |-> details, duration |-> 0,
     progress |-> progress, is_folder |-> FALSE, file_path |-> file_path,
     indent_level |-> indent_level, folder_name |-> <<>>]

FolderItem(video_id, name, count, folder_name) ==
    [video_id |-> video_id, title |-> FolderIcon \o name,
     details |-> << count, " videos" >>, duration |-> 0, progress |-> 0,
     is_folder |-> TRUE, file_path |-> <<>>, indent_level |-> 0,
     folder_name |-> folder_name]

\* window.py 639: len(subfolder.get('_files', [])) if '_files' in subfolder else 0
video_count(s, folder) ==
    LET key == Append(folder, FILES_KEY)
    IN  IF key \notin DOMAIN s THEN 0
        ELSE IF s[key].kind = "list" THEN Len(s[key].items)
        ELSE Cardinality(Keys(s, key))

\* window.py 679-681: the saved percentage of a file, 0 when it has none.
progress_of(progress, file_path) ==
    IF file_path \in DOMAIN progress THEN progress[file_path].percentage ELSE 0

\* window.py 636-654: one row per top-level folder, in sorted() order.
folder_rows(s) ==
    LET folder_names == sorted(SetToSeq(Keys(s, <<>>) \ {FILES_KEY}))
    IN  [i \in 1..Len(folder_names) |->
            FolderItem(<< "folder_", folder_names[i] >>, folder_names[i],
                       video_count(s, << folder_names[i] >>), folder_names[i])]

\* The rows of the root's own files with ids numbered on from the builds
\* before this one.
root_file_rows_numbered_on(root_files, before, progress) ==
    [i \in 1..Len(root_files) |->
        VideoItem(<< "video_", before + Len(builds) + i - 1 >>,
                  splitext(root_files[i].name)[1], << "R", "o", "o", "t" >>,
                  progress_of(progress, root_files[i].path), root_files[i].path, 0)]

\* window.py 675-694: the rows of the root's own files, after `before` rows.
root_file_rows(root_files, before, progress) ==
    [i \in 1..Len(root_files) |->
        VideoItem(<< "video_", before + i - 1 >>, splitext(root_files[i].name)[1],
                  << "R", "o", "o", "t" >>, progress_of(progress, root_files[i].path),
                  root_files[i].path, 0)]

\* The "Root Files" row added without the test of line 661.
root_header_always(folders, root_files) ==
    << FolderItem("folder_root", RootFilesName, Len(root_files), << "." >>) >>

\* window.py 660-672: the "Root Files" row, added when there are folder rows.
root_header(folders, root_files) ==
    IF folders # <<>>
    THEN << FolderItem("folder_root", RootFilesName, Len(root_files), << "." >>) >>
    ELSE <<>>

\* window.py 635-697: the rows of the model that build_folder_model sets, or
\* Raised. A root "_files" entry that is a non-empty dict (a directory named
\* _files under a root without videos) makes the unpacking of its keys as
\* (file_path, file_name) pairs raise.
build_rows(s, progress) ==
    LET folders == folder_rows(s)
        key == << FILES_KEY >>
    IN  IF key \notin DOMAIN s THEN [ok |-> TRUE, rows |-> folders]
        ELSE IF s[key].kind = "dict"
        THEN IF Keys(s, key) = {} THEN [ok |-> TRUE, rows |-> folders] ELSE Raised
        ELSE IF s[key].items = <<>> THEN [ok |-> TRUE, rows |-> folders]
        ELSE LET root_files == sorted_by_lower_name(s[key].items)
                 before == folders \o root_header(folders, root_files)
             IN  [ok |-> TRUE,
                  rows |-> before \o root_file_rows(root_files, Len(before), progress)]

(***************************************************************************)
(* State                                                                    *)
(***************************************************************************)

\* An attribute that may be missing (hasattr) or None is a sequence of at most
\* one value.
None == <<>>
Some(x) == << x >>

\* The most folder loads (scan threads) one behaviour starts.
MaxLoads == 2

VARIABLES
    fs,                      \* the file system: directory path -> [dirs, files]
    progress_data,           \* LocaldemyWindow.progress_data without '_app_state'
    last_folder,             \* progress_data['_app_state']['last_folder']
    last_video,              \* progress_data['_app_state']['last_video']
    _saving_progress,        \* LocaldemyWindow._saving_progress
    save_timers,             \* pending _save_progress_without_reload timeouts
    _loading_folder,         \* LocaldemyWindow._loading_folder
    scan_cancelled,          \* LocaldemyWindow.scan_cancelled (None: no attribute)
    current_folder,          \* LocaldemyWindow.current_folder (None: no attribute)
    _pending_folder_path,    \* LocaldemyWindow._pending_folder_path
    folder_navigation_stack, \* LocaldemyWindow.folder_navigation_stack
    folder_back_button,      \* folder_back_button.get_visible()
    back_button,             \* back_button.get_visible()
    current_video_path,      \* LocaldemyWindow.current_video_path
    videos_model,            \* library_view.videos_model: the rows shown
    dialogs,                 \* the scans whose progress dialog is still shown
    workers,                 \* the scan threads started so far, in start order
    idle_queue,              \* callbacks handed to GLib.idle_add, oldest first
    timers,                  \* pending GLib.timeout_add callbacks of the window
    startup,                 \* the pending start-up timer and its captured folder
    _during_startup,         \* hasattr(self, '_during_startup')
    timeouts,                \* the other pending GLib timeouts, fired in any order
    model_scan,              \* the scan whose structure videos_model was built from
    cancel_requested,        \* the scans that were walking when a cancel was set
    cancel_observed,         \* the scans for which a cancellation check fired
    build_scheduled,         \* the scans whose worker scheduled build_folder_model
    worker_writes            \* window attributes assigned on a scan thread

VARIABLES
    player,                  \* the window's VideoPlayer
    unreadable,              \* the directories that os.listdir cannot read
    empty_files,             \* the files of size 0
    _selecting_video,        \* LocaldemyWindow._selecting_video
    selections,              \* the video selections handled so far
    sub_calls                \* the load_subtitles calls made so far, oldest first

VARIABLES
    content,                 \* the text handed to a subtitle parser
    track_format,            \* the parser class: "srt" (SRTParser) or "vtt" (VTTParser)
    subtitles,               \* the parser's subtitles list (None: not yet parsed)
    lookups,                 \* the latest get_subtitle_at_time call and its result
    markups                  \* the latest format_subtitle_text call and its result

VARIABLES
    big_files,               \* the files larger than 10 MB
    file_content,            \* the text of each subtitle file
    parsed_files,            \* the files create_subtitle_parser was called on
    pick_calls               \* the _on_subtitle_file_selected calls made so far

playerVars == << player, unreadable, empty_files, _selecting_video, selections, sub_calls >>

parserVars == << content, track_format, subtitles, lookups, markups >>

installVars == << big_files, file_content, parsed_files, pick_calls >>

folderVars ==
    << fs, progress_data, save_timers, last_folder, last_video, _saving_progress,
       _loading_folder, scan_cancelled,
       current_folder, _pending_folder_path, folder_navigation_stack,
       folder_back_button, back_button, current_video_path, videos_model, dialogs,
       workers, idle_queue, timers, startup, _during_startup, timeouts, model_scan,
       cancel_requested, cancel_observed, build_scheduled, worker_writes, builds >>

vars == << folderVars, playerVars, parserVars, installVars >>

(***************************************************************************)
(* File systems                                                             *)
(***************************************************************************)

Dir(dirs, files) == [dirs |-> dirs, files |-> files]

n_R == << "R" >>
n_Lectures == << "L", "e", "c", "t", "u", "r", "e", "s" >>
n_a_mp4 == << "a", ".", "m", "p", "4" >>
n_b_mkv == << "b", ".", "m", "k", "v" >>

\* Scenario A: R/{a.mp4, Lectures/{b.mkv}}
ScenarioA ==
    (<<>> :> Dir(<< n_R >>, <<>>))
    @@ (<< n_R >> :> Dir(<< n_Lectures >>, << n_a_mp4 >>))
    @@ (<< n_R, n_Lectures >> :> Dir(<<>>, << n_b_mkv >>))

\* A root whose directory _files holds a video next to the root's own video:
\* the walk raises when it reaches the directory.
FilesDirTree ==
    (<<>> :> Dir(<< n_R >>, <<>>))
    @@ (<< n_R >> :> Dir(<< FILES_KEY >>, << n_a_mp4 >>))
    @@ (<< n_R, FILES_KEY >> :> Dir(<<>>, << n_b_mkv >>))

WindowTrees == { ScenarioA, FilesDirTree }

isdir(path) == path \in DOMAIN fs

\* os.path.dirname of an absolute path ("/" is its own parent).
dirname(path) == IF path = <<>> THEN <<>> ELSE SubSeq(path, 1, Len(path) - 1)

(***************************************************************************)
(* Folder load: the control thread                                          *)
(***************************************************************************)

Worker(folder_path, auto_play_last) ==
    [pc |-> "start", folder |-> folder_path, todo |-> << folder_path >>,
     structure |-> EmptyStructure, auto_play_last |-> auto_play_last]

Callback(fn, scan, structure) == [fn |-> fn, scan |-> scan, structure |-> structure]

\* window.py 399-413: the request is refused for a path that is no directory
\* and while a load is active. (_in_progress_save is false whenever a handler
\* starts: _save_progress_without_reload sets and clears it in one call.)
load_refused(folder_path, loading) == ~isdir(folder_path) \/ loading

\* window.py 281-323: _save_progress_without_reload called directly; it
\* updates the saved application state and clears _saving_progress.
save_app_state(folder) ==
    /\ last_folder' = folder
    /\ last_video' = IF current_video_path # None THEN current_video_path ELSE last_video
    /\ _saving_progress' = FALSE

\* window.py 397-484: load_videos_from_folder, called with _loading_folder
\* holding `loading`.
load_videos_from_folder(folder_path, auto_play_last, loading) ==
    IF load_refused(folder_path, loading)
    THEN /\ _loading_folder' = loading
         /\ UNCHANGED << videos_model, model_scan, current_folder, last_folder,
                         last_video, _saving_progress, folder_back_button, dialogs, workers >>
    ELSE /\ _loading_folder' = TRUE
         /\ videos_model' = <<>>
         /\ model_scan' = 0
         /\ current_folder' = Some(folder_path)
         /\ save_app_state(Some(folder_path))
         /\ folder_back_button' =
                IF folder_navigation_stack # None /\ folder_navigation_stack[1] # <<>>
                THEN TRUE
                ELSE dirname(folder_path) # folder_path
         /\ dialogs' = dialogs \cup {Len(workers) + 1}
         /\ workers' = Append(workers, Worker(folder_path, auto_play_last))

\* window.py 360-370: the folder chooser returns an existing directory.
on_open_folder_dialog_response(folder_path) ==
    /\ load_videos_from_folder(folder_path, FALSE, _loading_folder)
    /\ UNCHANGED << fs, progress_data, save_timers, scan_cancelled, _pending_folder_path,
                    folder_navigation_stack, back_button, current_video_path,
                    idle_queue, timers, startup, cancel_requested, cancel_observed,
                    build_scheduled, worker_writes,
                    _during_startup, timeouts, playerVars, parserVars, installVars, builds >>

\* The scans whose worker has not yet made the last cancellation check of its walk.
Walking == { k \in 1..Len(workers) :
                workers[k].pc = "start"
                \/ (workers[k].pc = "walk" /\ workers[k].todo # <<>>) }

\* window.py 486-490: the Cancel button of scan k's progress dialog. The
\* handler is connected with the dialog as user data, so its `dialog`
\* parameter is the button: whether dialog.destroy() closes the progress
\* dialog is left open (closed).
on_scan_cancelled(k, closed) ==
    /\ k \in dialogs
    /\ scan_cancelled' = Some(TRUE)
    /\ dialogs' = IF closed THEN dialogs \ {k} ELSE dialogs
    /\ cancel_requested' = cancel_requested \cup Walking
    /\ UNCHANGED << fs, progress_data, save_timers, last_folder, last_video, _saving_progress, _loading_folder,
                    current_folder, _pending_folder_path, folder_navigation_stack,
                    folder_back_button, back_button, current_video_path, videos_model,
                    workers, idle_queue, timers, startup, model_scan, cancel_observed,
                    build_scheduled, worker_writes,
                    _during_startup, timeouts, playerVars, parserVars, installVars, builds >>

\* window.py 900-921
on_back_to_library_clicked ==
    /\ back_button
    /\ back_button' = FALSE
    /\ save_app_state(IF current_folder # None THEN current_folder ELSE last_folder)
    /\ scan_cancelled' = IF scan_cancelled # None THEN Some(TRUE) ELSE scan_cancelled
    /\ cancel_requested' =
           IF scan_cancelled # None THEN cancel_requested \cup Walking
           ELSE cancel_requested
    /\ videos_model' = <<>>
    /\ model_scan' = 0
    /\ UNCHANGED << fs, progress_data, save_timers, _loading_folder, current_folder,
                    _pending_folder_path, folder_navigation_stack, folder_back_button,
                    current_video_path, dialogs, workers, idle_queue, timers, startup,
                    cancel_observed, build_scheduled, worker_writes,
                    _during_startup, timeouts, playerVars, parserVars, installVars, builds >>

\* library.py 249-261: the folder name that a selected folder row emits.
emitted_folder_name(row) ==
    IF StartsWith(row.title, FolderIcon)
    THEN Strip(SubSeq(row.title, 3, Len(row.title)))
    ELSE row.title

\* window.py 985-1068: a folder row of the shown model is selected.
on_folder_selected(folder_name) ==
    /\ folder_name # <<>>
    /\ current_folder # None
    /\ ~_loading_folder
    /\ IF folder_name = RootFilesName \/ folder_name = << "." >>
       THEN UNCHANGED << _loading_folder, folder_navigation_stack, folder_back_button,
                         _pending_folder_path, timers >>
       ELSE LET selected_folder_path == Append(current_folder[1], folder_name)
            IN  IF isdir(selected_folder_path)
                THEN /\ _loading_folder' = TRUE
                     /\ folder_navigation_stack' =
                            Some(Append(IF folder_navigation_stack = None THEN <<>>
                                        ELSE folder_navigation_stack[1],
                                        current_folder[1]))
                     /\ folder_back_button' = TRUE
                     /\ _pending_folder_path' = Some(selected_folder_path)
                     /\ timers' = Append(timers, "delayed_load_folder")
                ELSE UNCHANGED << _loading_folder, folder_navigation_stack,
                                  folder_back_button, _pending_folder_path, timers >>
    /\ UNCHANGED << fs, progress_data, save_timers, last_folder, last_video, _saving_progress, scan_cancelled,
                    current_folder, back_button, current_video_path, videos_model,
                    dialogs, workers, idle_queue, startup, model_scan,
                    cancel_requested, cancel_observed, build_scheduled, worker_writes,
                    _during_startup, timeouts, playerVars, parserVars, installVars, builds >>

\* window.py 1070-1137
on_folder_back_clicked ==
    /\ folder_back_button
    /\ ~_loading_folder
    /\ LET has_stack == folder_navigation_stack # None
                        /\ folder_navigation_stack[1] # <<>>
           stack == folder_navigation_stack[1]
           parent_dir == dirname(current_folder[1])
           target_folder ==
               IF has_stack THEN Some(stack[Len(stack)])
               ELSE IF current_folder # None /\ parent_dir # current_folder[1]
                    THEN Some(parent_dir)
                    ELSE None
       IN  /\ folder_navigation_stack' =
                  IF has_stack THEN Some(SubSeq(stack, 1, Len(stack) - 1))
                  ELSE folder_navigation_stack
           /\ folder_back_button' =
                  IF ~has_stack /\ current_folder # None /\ target_folder = None
                  THEN FALSE ELSE folder_back_button
           /\ IF target_folder # None
              THEN /\ _loading_folder' = TRUE
                   /\ _pending_folder_path' = target_folder
                   /\ timers' = Append(timers, "delayed_load_parent")
              ELSE UNCHANGED << _loading_folder, _pending_folder_path, timers >>
    /\ UNCHANGED << fs, progress_data, save_timers, last_folder, last_video, _saving_progress, scan_cancelled,
                    current_folder, back_button, current_video_path, videos_model,
                    dialogs, workers, idle_queue, startup, model_scan,
                    cancel_requested, cancel_observed, build_scheduled, worker_writes,
                    _during_startup, timeouts, playerVars, parserVars, installVars, builds >>

\* window.py 1037-1059 and 1109-1131: delayed_load_folder and
\* delayed_load_parent, the oldest pending 100 ms timer.
delayed_load ==
    /\ timers # <<>>
    /\ Head(timers) \in {"delayed_load_folder", "delayed_load_parent"}
    /\ timers' = Tail(timers)
    /\ _pending_folder_path' = None
    /\ IF _pending_folder_path # None
       THEN load_videos_from_folder(_pending_folder_path[1], FALSE, FALSE)
       ELSE /\ _loading_folder' = FALSE
            /\ UNCHANGED << videos_model, model_scan, current_folder, last_folder,
                            last_video, _saving_progress, folder_back_button, dialogs, workers >>
    /\ UNCHANGED << fs, progress_data, save_timers, scan_cancelled, folder_navigation_stack,
                    back_button, current_video_path, idle_queue, startup,
                    cancel_requested, cancel_observed, build_scheduled, worker_writes,
                    _during_startup, timeouts, playerVars, parserVars, installVars, builds >>

\* window.py 923-957: the start-up timer; it schedules delayed_startup_load
\* for a saved folder that still exists.
load_last_folder ==
    /\ startup.fn = "load_last_folder"
    /\ startup' = IF last_folder # None /\ isdir(last_folder[1])
                  THEN [fn |-> "delayed_startup_load", folder |-> last_folder]
                  ELSE [fn |-> "none", folder |-> None]
    /\ UNCHANGED << fs, progress_data, save_timers, last_folder, last_video, _saving_progress, _loading_folder,
                    scan_cancelled, current_folder, _pending_folder_path,
                    folder_navigation_stack, folder_back_button, back_button,
                    current_video_path, videos_model, dialogs, workers, idle_queue,
                    timers, model_scan, cancel_requested, cancel_observed,
                    build_scheduled, worker_writes,
                    _during_startup, timeouts, playerVars, parserVars, installVars, builds >>

\* window.py 943-949
delayed_startup_load ==
    /\ startup.fn = "delayed_startup_load"
    /\ startup' = [fn |-> "none", folder |-> None]
    /\ IF _loading_folder
       THEN UNCHANGED << _loading_folder, videos_model, model_scan, current_folder,
                         last_folder, last_video, _saving_progress, folder_back_button, dialogs, workers >>
       ELSE load_videos_from_folder(startup.folder[1], TRUE, FALSE)
    /\ UNCHANGED << fs, progress_data, save_timers, scan_cancelled, _pending_folder_path,
                    folder_navigation_stack, back_button, current_video_path,
                    idle_queue, timers, cancel_requested, cancel_observed,
                    build_scheduled, worker_writes,
                    _during_startup, timeouts, playerVars, parserVars, installVars, builds >>

(***************************************************************************)
(* Folder load: the scan thread                                             *)
(***************************************************************************)

\* window.py 494-496: the first statement of scan_folder_thread.
scan_start(k) ==
    /\ workers[k].pc = "start"
    /\ scan_cancelled' = Some(FALSE)
    /\ worker_writes' = worker_writes \cup {"scan_cancelled"}
    /\ workers' = [workers EXCEPT ![k].pc = "walk"]
    /\ UNCHANGED << fs, progress_data, save_timers, last_folder, last_video, _saving_progress, _loading_folder,
                    current_folder, _pending_folder_path, folder_navigation_stack,
                    folder_back_button, back_button, current_video_path, videos_model,
                    dialogs, idle_queue, timers, startup, _during_startup, timeouts,
                    model_scan, cancel_requested, cancel_observed, build_scheduled, playerVars, parserVars, installVars, builds >>

\* window.py 553: hasattr(self, 'scan_cancelled') and self.scan_cancelled
cancel_seen == scan_cancelled = Some(TRUE)

\* window.py 518-556 and 567-584: one iteration of the os.walk loop, with its
\* cancellation check, or the exception handler when the iteration raises.
scan_visit(k) ==
    /\ workers[k].pc = "walk"
    /\ workers[k].todo # <<>>
    /\ LET w == workers[k]
           dir == Head(w.todo)
           r == visit_dir(fs, w.folder, dir, w.structure)
       IN  IF ~r.ok
           THEN /\ idle_queue' = Append(idle_queue, Callback("show_error", k, EmptyStructure))
                /\ _loading_folder' = FALSE
                /\ worker_writes' = worker_writes \cup {"_loading_folder"}
                /\ workers' = [workers EXCEPT ![k].pc = "done"]
                /\ UNCHANGED cancel_observed
           ELSE IF cancel_seen
           THEN /\ idle_queue' = Append(idle_queue, Callback("destroy", k, EmptyStructure))
                /\ workers' = [workers EXCEPT ![k].pc = "done", ![k].structure = r.s]
                /\ cancel_observed' = cancel_observed \cup {k}
                /\ UNCHANGED << _loading_folder, worker_writes >>
           ELSE /\ workers' = [workers EXCEPT ![k].structure = r.s,
                                              ![k].todo = walk_next(fs, dir, Tail(w.todo))]
                /\ UNCHANGED << idle_queue, _loading_folder, worker_writes, cancel_observed >>
    /\ UNCHANGED << fs, progress_data, save_timers, last_folder, last_video, _saving_progress, scan_cancelled,
                    current_folder, _pending_folder_path, folder_navigation_stack,
                    folder_back_button, back_button, current_video_path, videos_model,
                    dialogs, timers, startup, _during_startup, timeouts, model_scan,
                    cancel_requested, build_scheduled, playerVars, parserVars, installVars, builds >>

\* window.py 558-566: the walk is over; hand the structure to the main loop.
scan_handoff(k) ==
    /\ workers[k].pc = "walk"
    /\ workers[k].todo = <<>>
    /\ idle_queue' = Append(idle_queue,
                            Callback("build_folder_model", k, workers[k].structure))
    /\ build_scheduled' = build_scheduled \cup {k}
    /\ workers' = [workers EXCEPT ![k].pc = "done"]
    /\ UNCHANGED << fs, progress_data, save_timers, last_folder, last_video, _saving_progress, _loading_folder,
                    scan_cancelled, current_folder, _pending_folder_path,
                    folder_navigation_stack, folder_back_button, back_button,
                    current_video_path, videos_model, dialogs, timers, startup,
                    _during_startup, timeouts, model_scan, cancel_requested,
                    cancel_observed, worker_writes, playerVars, parserVars, installVars, builds >>

scan_folder_thread(k) == scan_start(k) \/ scan_visit(k) \/ scan_handoff(k)

(***************************************************************************)
(* Folder load: callbacks run by the main loop                              *)
(***************************************************************************)

\* window.py 555: GLib.idle_add(progress_dialog.destroy)
idle_destroy ==
    /\ idle_queue # <<>>
    /\ Head(idle_queue).fn = "destroy"
    /\ idle_queue' = Tail(idle_queue)
    /\ dialogs' = dialogs \ {Head(idle_queue).scan}
    /\ UNCHANGED << fs, progress_data, save_timers, last_folder, last_video, _saving_progress, _loading_folder,
                    scan_cancelled, current_folder, _pending_folder_path,
                    folder_navigation_stack, folder_back_button, back_button,
                    current_video_path, videos_model, workers, timers, startup,
                    _during_startup, timeouts, model_scan, cancel_requested,
                    cancel_observed, build_scheduled, worker_writes, playerVars, parserVars, installVars, builds >>

\* window.py 573-578: show_error, scheduled by the scan thread's handler.
idle_show_error ==
    /\ idle_queue # <<>>
    /\ Head(idle_queue).fn = "show_error"
    /\ idle_queue' = Tail(idle_queue)
    /\ dialogs' = dialogs \ {Head(idle_queue).scan}
    /\ _loading_folder' = FALSE
    /\ UNCHANGED << fs, progress_data, save_timers, last_folder, last_video, _saving_progress, scan_cancelled,
                    current_folder, _pending_folder_path, folder_navigation_stack,
                    folder_back_button, back_button, current_video_path, videos_model,
                    workers, timers, startup, _during_startup, timeouts, model_scan,
                    cancel_requested, cancel_observed, build_scheduled, worker_writes, playerVars, parserVars, installVars, builds >>

\* window.py 713-716: the index of last_video in the model, 0 if it has none.
index_of_video(rows, path) ==
    IF \E i \in 1..Len(rows) : rows[i].file_path = path
    THEN CHOOSE i \in 1..Len(rows) :
            /\ rows[i].file_path = path
            /\ \A j \in 1..(i - 1) : rows[j].file_path # path
    ELSE 0

\* window.py 592: build_folder_model's own cancellation check.
build_cancelled == scan_cancelled = Some(TRUE)

\* A build that goes on after it found the scan cancelled.
build_never_returns(cancelled) == FALSE

\* window.py 593-595: a build that finds the scan cancelled returns before it
\* reads the structure.
build_returns(cancelled) == cancelled

\* window.py 586-737: build_folder_model for the structure of scan k.
build_folder_model ==
    /\ idle_queue # <<>>
    /\ Head(idle_queue).fn = "build_folder_model"
    /\ idle_queue' = Tail(idle_queue)
    /\ LET k == Head(idle_queue).scan
           r == build_rows(Head(idle_queue).structure, progress_data)
           found == IF r.ok /\ last_video # None
                    THEN index_of_video(r.rows, last_video[1]) ELSE 0
       IN  /\ dialogs' = dialogs \ {k}
           /\ _loading_folder' = FALSE
           /\ cancel_observed' = IF build_cancelled THEN cancel_observed \cup {k}
                                 ELSE cancel_observed
           /\ IF build_returns(build_cancelled) \/ ~r.ok
              THEN UNCHANGED << videos_model, model_scan, _during_startup, timeouts,
                                builds >>
              ELSE /\ videos_model' = r.rows
                   /\ model_scan' = k
                   /\ builds' = Append(builds, [scan |-> k,
                                                folder |-> workers[k].folder,
                                                progress |-> progress_data,
                                                rows |-> r.rows])
                   /\ IF workers[k].auto_play_last /\ ~_during_startup
                      THEN /\ _during_startup' = TRUE
                           /\ timeouts' = timeouts
                                \cup {[fn |-> "clear_startup_flag", arg |-> None]}
                                \cup (IF found > 0
                                      THEN {[fn |-> "delayed_select_video",
                                             arg |-> Some(r.rows[found])]}
                                      ELSE {})
                      ELSE UNCHANGED << _during_startup, timeouts >>
    /\ UNCHANGED << fs, progress_data, save_timers, last_folder, last_video, _saving_progress, scan_cancelled,
                    current_folder, _pending_folder_path, folder_navigation_stack,
                    folder_back_button, back_button, current_video_path, workers,
                    timers, startup, cancel_requested, build_scheduled, worker_writes,
                    playerVars, parserVars, installVars >>

\* window.py 739-743
clear_startup_flag ==
    /\ [fn |-> "clear_startup_flag", arg |-> None] \in timeouts
    /\ timeouts' = timeouts \ {[fn |-> "clear_startup_flag", arg |-> None]}
    /\ _during_startup' = FALSE
    /\ UNCHANGED << fs, progress_data, save_timers, last_folder, last_video, _saving_progress, _loading_folder,
                    scan_cancelled, current_folder, _pending_folder_path,
                    folder_navigation_stack, folder_back_button, back_button,
                    current_video_path, videos_model, dialogs, workers, idle_queue,
                    timers, startup, model_scan, cancel_requested, cancel_observed,
                    build_scheduled, worker_writes, playerVars, parserVars, installVars, builds >>

(***************************************************************************)
(* Subtitle resolution: VideoPlayer.load_subtitles                          *)
(***************************************************************************)

\* video_player.py 772
subtitle_extensions ==
    << <<".", "s", "r", "t">>, <<".", "v", "t", "t">>, <<".", "a", "s", "s">>,
       <<".", "s", "s", "a">>, <<".", "s", "u", "b">> >>

\* video_player.py 777-778
language_codes ==
    << <<"e", "n">>, <<"e", "n", "g">>, <<"e", "n", "g", "l", "i", "s", "h">>,
       <<"e", "s">>, <<"s", "p", "a">>, <<"s", "p", "a", "n", "i", "s", "h">>,
       <<"f", "r">>, <<"f", "r", "e">>, <<"f", "r", "e", "n", "c", "h">>,
       <<"d", "e">>, <<"g", "e", "r">>, <<"g", "e", "r", "m", "a", "n">>,
       <<"i", "t">>, <<"i", "t", "a">>, <<"i", "t", "a", "l", "i", "a", "n">>,
       <<"r", "u">>, <<"r", "u", "s">>, <<"r", "u", "s", "s", "i", "a", "n">> >>

\* video_player.py 827
subtitle_dirs ==
    << <<"s", "u", "b", "t", "i", "t", "l", "e", "s">>, <<"s", "u", "b", "s">>,
       <<"s", "r", "t">>, <<"s", "u", "b", "t", "i", "t", "l", "e">>,
       <<"s", "u", "b">> >>

\* os.path.exists on the file system fsys.
exists(fsys, path) ==
    \/ path \in DOMAIN fsys
    \/ /\ path # <<>>
       /\ dirname(path) \in DOMAIN fsys
       /\ path[Len(path)] \in Range(fsys[dirname(path)].files)

\* The first path of a sequence that exists, None if none does.
first_existing(fsys, paths) ==
    LET hits == { i \in 1..Len(paths) : exists(fsys, paths[i]) }
    IN  IF hits = {} THEN None
        ELSE Some(paths[CHOOSE i \in hits : \A j \in hits : i <= j])

\* video_player.py 781-813: {base_path}{sep}{lang}{ext}, languages outer,
\* extensions inner.
lang_candidates(directory, base_name, sep) ==
    LET n == Len(subtitle_extensions)
    IN  [i \in 1..(Len(language_codes) * n) |->
            Append(directory,
                   base_name \o sep \o language_codes[((i - 1) \div n) + 1]
                             \o subtitle_extensions[((i - 1) % n) + 1])]

\* video_player.py 817-822: {base_path}{ext}
generic_candidates(directory, base_name) ==
    [i \in 1..Len(subtitle_extensions) |->
        Append(directory, base_name \o subtitle_extensions[i])]

\* os.listdir: the entries of a directory, in listing order.
listdir(fsys, dir) == fsys[dir].files \o fsys[dir].dirs

\* video_player.py 832-837: a file of a subtitle directory matches the video.
subdir_match(filename, base_name) ==
    LET file_base == Lower(splitext(filename)[1])
        file_ext == Lower(splitext(filename)[2])
        base == Lower(base_name)
    IN  /\ file_ext \in Range(subtitle_extensions)
        /\ (Contains(base, file_base) \/ Contains(file_base, base) \/ file_base = base)

\* video_player.py 849-850: a file of the parent directory matches the video.
parent_match(filename, base_name) ==
    /\ Lower(splitext(filename)[2]) \in Range(subtitle_extensions)
    /\ Contains(Lower(splitext(filename)[1]), Lower(base_name))

\* The first entry of a listing that matches, None if none does.
RECURSIVE first_match(_, _, _)
first_match(names, base_name, in_subdir) ==
    IF names = <<>> THEN None
    ELSE IF (IF in_subdir THEN subdir_match(names[1], base_name)
             ELSE parent_match(names[1], base_name))
         THEN Some(names[1])
         ELSE first_match(Tail(names), base_name, in_subdir)

\* video_player.py 824-842: the subtitle directories next to the video, in
\* order. Listing a directory that cannot be read raises.
RECURSIVE search_subdirs(_, _, _, _, _)
search_subdirs(fsys, noread, directory, base_name, subdirs) ==
    IF subdirs = <<>> THEN [raised |-> FALSE, found |-> None]
    ELSE LET subs_dir == Append(directory, subdirs[1])
         IN  IF subs_dir \notin DOMAIN fsys
             THEN search_subdirs(fsys, noread, directory, base_name, Tail(subdirs))
             ELSE IF subs_dir \in noread THEN [raised |-> TRUE, found |-> None]
             ELSE LET m == first_match(listdir(fsys, subs_dir), base_name, TRUE)
                  IN  IF m # None
                      THEN [raised |-> FALSE, found |-> Some(Append(subs_dir, m[1]))]
                      ELSE search_subdirs(fsys, noread, directory, base_name,
                                          Tail(subdirs))

\* video_player.py 844-853: the parent of the video's directory.
search_parent(fsys, noread, directory, base_name) ==
    LET parent_dir == dirname(directory)
    IN  IF parent_dir \notin DOMAIN fsys THEN [raised |-> FALSE, found |-> None]
        ELSE IF parent_dir \in noread THEN [raised |-> TRUE, found |-> None]
        ELSE LET m == first_match(listdir(fsys, parent_dir), base_name, FALSE)
             IN  [raised |-> FALSE,
                  found |-> IF m # None THEN Some(Append(parent_dir, m[1])) ELSE None]

Found(path, rank) == [raised |-> FALSE, found |-> path, rank |-> rank]

\* The patterns tried with the generic sibling first.
pattern_order_generic_first == << 4, 1, 2, 3, 5, 6 >>

\* The order in which load_subtitles tries its six patterns.
pattern_order == << 1, 2, 3, 4, 5, 6 >>

\* The outcome of pattern number n alone.
try_pattern(fsys, noread, directory, base_name, n) ==
    CASE n = 1 -> [raised |-> FALSE,
                   found |-> first_existing(fsys, lang_candidates(directory, base_name, << "." >>))]
      [] n = 2 -> [raised |-> FALSE,
                   found |-> first_existing(fsys, lang_candidates(directory, base_name, << "_" >>))]
      [] n = 3 -> [raised |-> FALSE,
                   found |-> first_existing(fsys, lang_candidates(directory, base_name, << "-" >>))]
      [] n = 4 -> [raised |-> FALSE,
                   found |-> first_existing(fsys, generic_candidates(directory, base_name))]
      [] n = 5 -> search_subdirs(fsys, noread, directory, base_name, subtitle_dirs)
      [] n = 6 -> search_parent(fsys, noread, directory, base_name)

\* video_player.py 768-853: found_subtitle, the pattern that produced it, and
\* whether the search raised instead.
\* `if not found_subtitle:` before each pattern: the outcome r of pattern n
\* ends the search when it raised or found a file, else the rest decides.
first_found(r, n, rest) ==
    IF r.raised THEN [raised |-> TRUE, found |-> None, rank |-> n]
    ELSE IF r.found # None THEN Found(r.found, n)
    ELSE rest

RECURSIVE search_patterns(_, _, _, _, _)
search_patterns(fsys, noread, directory, base_name, order) ==
    IF order = <<>> THEN [raised |-> FALSE, found |-> None, rank |-> 0]
    ELSE first_found(try_pattern(fsys, noread, directory, base_name, order[1]),
                     order[1],
                     search_patterns(fsys, noread, directory, base_name, Tail(order)))

find_subtitle(fsys, noread, video_path) ==
    search_patterns(fsys, noread, dirname(video_path),
                    splitext(video_path[Len(video_path)])[1], pattern_order)

(***************************************************************************)
(* VideoPlayer                                                              *)
(***************************************************************************)

\* video_player.py 76-90, 473: the player after construction.
NewPlayer(has_playbin) ==
    [playbin |-> has_playbin,
     current_video |-> None,
     duration |-> 0,
     playing |-> FALSE,               \* the pipeline is in state PLAYING
     _loading_video |-> FALSE,
     _last_subtitle_check |-> None,
     subtitle_file |-> None,
     subtitle_parser |-> None,        \* the file the custom parser was built from
     subtitle_timer |-> FALSE,        \* _subtitle_timer_id > 0
     subtitles_enabled |-> TRUE,
     subtitle_button |-> TRUE,        \* subtitle_button.get_active()
     suburi |-> None,                 \* playbin's "suburi" property
     subtitle_label |-> None,         \* the text shown by subtitle_label
     current_subtitle_text |-> None,
     check_timers |-> 0,              \* pending _check_and_force_subtitle_selection
     reset_timers |-> 0,              \* pending reset_loading_flag
     cleared |-> FALSE]               \* history: cleared, and nothing loaded since

\* video_player.py 1766-1843: on_subtitle_toggled with the button active.
on_subtitle_toggled_on(p) ==
    LET q == [p EXCEPT !.subtitle_button = TRUE, !.subtitles_enabled = TRUE]
    IN  IF q.playbin /\ q.subtitle_file # None
        THEN [q EXCEPT !.suburi = q.subtitle_file, !.check_timers = @ + 1]
        ELSE q

\* Gtk.ToggleButton.set_active(True): the toggled handler runs when the state
\* changes.
set_subtitle_button_active(p) ==
    IF p.subtitle_button THEN p ELSE on_subtitle_toggled_on(p)

\* os.path.getsize(path) == 0
is_empty(empty, path) == path \in empty

\* video_player.py 877-959: set_subtitle_file; the player after the call and
\* the value returned.
set_subtitle_file(p, fsys, empty, subtitle_path) ==
    IF ~exists(fsys, subtitle_path) \/ is_empty(empty, subtitle_path)
    THEN [p |-> p, ret |-> FALSE]
    ELSE LET q == [p EXCEPT !.subtitle_file = Some(subtitle_path),
                            !.subtitle_timer = FALSE,
                            !.subtitle_parser = None,
                            !.subtitle_label = None,
                            !.current_subtitle_text = None]
         IN  IF ~q.playbin THEN [p |-> q, ret |-> FALSE]
             ELSE [p |-> [set_subtitle_button_active(
                              [q EXCEPT !.suburi = Some(subtitle_path),
                                        !.check_timers = @ + 1])
                          EXCEPT !.subtitles_enabled = TRUE],
                   ret |-> TRUE]

\* The outcome of a load_subtitles call that searched: the player after the
\* call, the value returned, whether the call raised, the file found and the
\* pattern that found it.
Searched(set, raised, r) ==
    [p |-> set.p, ret |-> set.ret, raised |-> raised, found |-> r.found,
     rank |-> r.rank, skipped |-> FALSE]

\* video_player.py 855-875: the end of load_subtitles, for the outcome r of
\* the search.
use_found_subtitle(q, fsys, empty, r) ==
    IF r.raised
    THEN Searched([p |-> q, ret |-> FALSE], TRUE, r)
    ELSE IF r.found # None
    THEN Searched(set_subtitle_file(q, fsys, empty, r.found[1]), FALSE, r)
    ELSE Searched([p |-> q, ret |-> FALSE], FALSE, r)

\* video_player.py 749-875: load_subtitles. A second call for the same video
\* returns at line 757.
load_subtitles(p, fsys, noread, empty, video_path) ==
    IF p._last_subtitle_check = Some(video_path)
    THEN [p |-> p, ret |-> FALSE, raised |-> FALSE, found |-> None, rank |-> 0,
          skipped |-> TRUE]
    ELSE use_found_subtitle([p EXCEPT !._last_subtitle_check = Some(video_path),
                                      !.subtitle_file = None,
                                      !.subtitle_label = None,
                                      !.current_subtitle_text = None],
                            fsys, empty, find_subtitle(fsys, noread, video_path))

\* video_player.py 1244-1278: play()
play(p) ==
    IF ~p.playbin THEN p
    ELSE [(IF p.subtitle_file # None /\ p.subtitles_enabled
           THEN [p EXCEPT !.suburi = p.subtitle_file]
           ELSE p)
          EXCEPT !.playing = TRUE]

\* video_player.py 579-592: the end of load_video, after load_subtitles
\* returned subs.
start_playback(subs) ==
    [p |-> [play(subs.p) EXCEPT !.reset_timers = @ + 1],
     ret |-> TRUE, subs |-> Some(subs)]

\* video_player.py 513-592: load_video; the player after the call, the value
\* returned, and the outcome of the subtitle search it made.
load_video(p, fsys, noread, empty, video_path) ==
    IF ~exists(fsys, video_path) \/ p._loading_video
    THEN [p |-> p, ret |-> FALSE, subs |-> None]
    ELSE LET q == [p EXCEPT !._loading_video = TRUE,
                            !.current_video = Some(video_path),
                            !._last_subtitle_check = None]
         IN  IF ~q.playbin
             THEN [p |-> [q EXCEPT !._loading_video = FALSE], ret |-> FALSE,
                   subs |-> None]
             ELSE start_playback(load_subtitles([q EXCEPT !.duration = 0, !.playing = FALSE],
                                                fsys, noread, empty, video_path))

(***************************************************************************)
(* Video selection                                                          *)
(***************************************************************************)

\* The most video selections one behaviour handles.
MaxSelections == 2

Timeout(fn, arg) == [fn |-> fn, arg |-> arg]

\* One entry of sub_calls: a load_subtitles call and its outcome.
SubCall(video_path, before, r) ==
    [video_path |-> video_path, before |-> before, after |-> r.p, ret |-> r.ret,
     raised |-> r.raised, found |-> r.found, rank |-> r.rank, skipped |-> r.skipped]

\* The player and the record of load_subtitles calls after load_video
\* returned r.
video_loaded(video_path, r) ==
    /\ player' = r.p
    /\ sub_calls' = IF r.subs # None
                    THEN Append(sub_calls,
                                SubCall(video_path,
                                        [player EXCEPT !._loading_video = TRUE,
                                                       !.current_video = Some(video_path),
                                                       !.duration = 0,
                                                       !.playing = FALSE,
                                                       !._last_subtitle_check = None],
                                        r.subs[1]))
                    ELSE sub_calls

\* window.py 839-884: on_video_selected for the video at video_path.
on_video_selected(video_path) ==
    /\ video_path # <<>>
    /\ ~_selecting_video
    /\ selections < MaxSelections
    /\ selections' = selections + 1
    /\ _selecting_video' = TRUE
    /\ current_video_path' = Some(video_path)
    /\ back_button' = TRUE
    /\ video_loaded(video_path, load_video(player, fs, unreadable, empty_files, video_path))

\* library.py 263-269: a video row of the shown model is selected.
select_video(i) ==
    /\ ~videos_model[i].is_folder
    /\ on_video_selected(videos_model[i].file_path)
    /\ timeouts' = timeouts \cup {Timeout("reset_selecting_video", None)}
    /\ UNCHANGED << fs, progress_data, save_timers, last_folder, last_video, _saving_progress, _loading_folder,
                    scan_cancelled, current_folder, _pending_folder_path,
                    folder_navigation_stack, folder_back_button, videos_model, dialogs,
                    workers, idle_queue, timers, startup, _during_startup, model_scan,
                    cancel_requested, cancel_observed, build_scheduled, worker_writes,
                    unreadable, empty_files, parserVars, installVars, builds >>

\* window.py 886-889
reset_selecting_video ==
    /\ Timeout("reset_selecting_video", None) \in timeouts
    /\ timeouts' = timeouts \ {Timeout("reset_selecting_video", None)}
    /\ _selecting_video' = FALSE
    /\ UNCHANGED << fs, progress_data, save_timers, last_folder, last_video, _saving_progress, _loading_folder,
                    scan_cancelled, current_folder, _pending_folder_path,
                    folder_navigation_stack, folder_back_button, back_button,
                    current_video_path, videos_model, dialogs, workers, idle_queue,
                    timers, startup, _during_startup, model_scan, cancel_requested,
                    cancel_observed, build_scheduled, worker_writes, player,
                    unreadable, empty_files, selections, sub_calls, parserVars,
                    installVars, builds >>

\* window.py 745-764: delayed_select_video(index, item). Selecting the row
\* emits video-selected when the selection changes; emit_video_selected is
\* scheduled in either case.
delayed_select_video(row, changed) ==
    /\ Timeout("delayed_select_video", Some(row)) \in timeouts
    /\ IF _selecting_video
       THEN /\ timeouts' = timeouts \ {Timeout("delayed_select_video", Some(row))}
            /\ UNCHANGED << _selecting_video, selections, current_video_path,
                            back_button, player, sub_calls >>
       ELSE /\ IF changed
               THEN on_video_selected(row.file_path)
               ELSE UNCHANGED << _selecting_video, selections, current_video_path,
                                 back_button, player, sub_calls >>
            /\ timeouts' = (timeouts \ {Timeout("delayed_select_video", Some(row))})
                           \cup {Timeout("emit_video_selected", Some(row))}
                           \cup (IF changed
                                 THEN {Timeout("reset_selecting_video", None)}
                                 ELSE {})
    /\ UNCHANGED << fs, progress_data, save_timers, last_folder, last_video, _saving_progress, _loading_folder,
                    scan_cancelled, current_folder, _pending_folder_path,
                    folder_navigation_stack, folder_back_button, videos_model, dialogs,
                    workers, idle_queue, timers, startup, _during_startup, model_scan,
                    cancel_requested, cancel_observed, build_scheduled, worker_writes,
                    unreadable, empty_files, parserVars, installVars, builds >>

\* window.py 766-769: emit_video_selected calls on_video_selected.
emit_video_selected(row) ==
    /\ Timeout("emit_video_selected", Some(row)) \in timeouts
    /\ IF _selecting_video
       THEN /\ timeouts' = timeouts \ {Timeout("emit_video_selected", Some(row))}
            /\ UNCHANGED << _selecting_video, selections, current_video_path,
                            back_button, player, sub_calls >>
       ELSE /\ on_video_selected(row.file_path)
            /\ timeouts' = (timeouts \ {Timeout("emit_video_selected", Some(row))})
                           \cup {Timeout("reset_selecting_video", None)}
    /\ UNCHANGED << fs, progress_data, save_timers, last_folder, last_video, _saving_progress, _loading_folder,
                    scan_cancelled, current_folder, _pending_folder_path,
                    folder_navigation_stack, folder_back_button, videos_model, dialogs,
                    workers, idle_queue, timers, startup, _during_startup, model_scan,
                    cancel_requested, cancel_observed, build_scheduled, worker_writes,
                    unreadable, empty_files, parserVars, installVars, builds >>

(***************************************************************************)
(* VideoPlayer timers and direct calls                                      *)
(***************************************************************************)

\* A reset timer that leaves _loading_video set.
reset_loading_flag_keeps_flag ==
    /\ player.reset_timers > 0
    /\ player' = [player EXCEPT !.reset_timers = @ - 1]
    /\ UNCHANGED << folderVars, parserVars, installVars, unreadable, empty_files, _selecting_video,
                    selections, sub_calls >>

\* video_player.py 594-597
reset_loading_flag ==
    /\ player.reset_timers > 0
    /\ player' = [player EXCEPT !.reset_timers = @ - 1, !._loading_video = FALSE]
    /\ UNCHANGED << folderVars, parserVars, installVars, unreadable, empty_files, _selecting_video,
                    selections, sub_calls >>

\* video_player.py 987-1065: _check_and_force_subtitle_selection, GStreamer
\* reporting n_text subtitle tracks. Without a track the custom parser is
\* built from subtitle_file and its display timer started.
check_and_force_subtitle_selection(p, n_text) ==
    LET q == [p EXCEPT !.check_timers = @ - 1]
    IN  IF ~q.playbin \/ q.subtitle_file = None \/ ~q.subtitles_enabled THEN q
        ELSE IF n_text > 0
        THEN [q EXCEPT !.subtitle_timer = FALSE, !.subtitle_parser = None,
                       !.subtitle_label = None]
        ELSE [q EXCEPT !.subtitle_parser = q.subtitle_file, !.subtitle_timer = TRUE]

\* video_player.py 1042, 970, 1067: the file that
\* _check_and_force_subtitle_selection hands to create_subtitle_parser, if any.
create_subtitle_parser(p, n_text) ==
    IF p.playbin /\ p.subtitle_file # None /\ p.subtitles_enabled /\ n_text = 0
    THEN { p.subtitle_file[1] }
    ELSE {}

_check_and_force_subtitle_selection(n_text) ==
    /\ player.check_timers > 0
    /\ player' = check_and_force_subtitle_selection(player, n_text)
    /\ parsed_files' = parsed_files \cup create_subtitle_parser(player, n_text)
    /\ UNCHANGED << folderVars, parserVars, big_files, file_content, pick_calls, unreadable,
                    empty_files, _selecting_video, selections, sub_calls >>

\* The most direct calls of the player's methods in one behaviour.
MaxCalls == 2

\* The video files of the file system.
AllFiles(fsys) ==
    UNION { { Append(d, f) : f \in Range(fsys[d].files) } : d \in DOMAIN fsys }
VideoPaths ==
    { v \in AllFiles(fs) : Lower(splitext(v[Len(v)])[2]) \in VIDEO_EXTENSIONS }

\* VideoPlayer.load_video called for an existing video.
call_load_video(video_path) ==
    /\ Len(sub_calls) < MaxCalls
    /\ video_loaded(video_path, load_video(player, fs, unreadable, empty_files, video_path))
    /\ UNCHANGED << folderVars, parserVars, installVars, unreadable, empty_files, _selecting_video, selections >>

subtitles_loaded(video_path, r) ==
    /\ player' = r.p
    /\ sub_calls' = Append(sub_calls, SubCall(video_path, player, r))

\* VideoPlayer.load_subtitles called again, with no load_video in between.
call_load_subtitles(video_path) ==
    /\ Len(sub_calls) < MaxCalls
    /\ subtitles_loaded(video_path,
                        load_subtitles(player, fs, unreadable, empty_files, video_path))
    /\ UNCHANGED << folderVars, parserVars, installVars, unreadable, empty_files, _selecting_video, selections >>

(***************************************************************************)
(* Playback progress                                                        *)
(***************************************************************************)

\* The most deferred saves one behaviour has pending at once.
MaxSaveTimers == 2

\* library.py 274-284: update_video_progress sets the progress of the first
\* row of the file, if there is one.
update_video_progress(rows, video_path, progress_percentage) ==
    LET hits == { i \in 1..Len(rows) : rows[i].file_path = video_path }
    IN  IF hits = {} THEN rows
        ELSE [rows EXCEPT ![CHOOSE i \in hits : \A j \in hits : i <= j].progress =
                              progress_percentage]

\* window.py 248-279: on_video_progress_updated(video_player, position) for a
\* player of the given duration. The percentage is kept in hundredths.
\* (_in_progress_save is false whenever a handler starts.)
on_video_progress_updated(duration, position) ==
    IF current_video_path = None \/ _loading_folder \/ _saving_progress \/ duration <= 0
    THEN UNCHANGED << progress_data, videos_model, _saving_progress, save_timers >>
    ELSE LET percentage == (position * 100) \div duration
         IN  /\ progress_data' =
                    (current_video_path[1] :> [position |-> position,
                                               percentage |-> percentage])
                    @@ progress_data
             /\ videos_model' =
                    update_video_progress(videos_model, current_video_path[1], percentage)
             /\ _saving_progress' = TRUE
             /\ save_timers' = save_timers + 1

\* video_player.py 1306-1350: the position timer fires while the pipeline
\* plays at `position` seconds; query_duration answers `duration` (0: it
\* fails). The progress-updated signal runs the window's handler.
update_position(position, duration) ==
    /\ player.playbin
    /\ player.playing
    /\ save_timers < MaxSaveTimers
    /\ player' = IF player.duration = 0 /\ duration > 0
                 THEN [player EXCEPT !.duration = duration]
                 ELSE player
    /\ on_video_progress_updated(player'.duration, position)
    /\ UNCHANGED << fs, last_folder, last_video, _loading_folder, scan_cancelled,
                    current_folder, _pending_folder_path, folder_navigation_stack,
                    folder_back_button, back_button, current_video_path, dialogs,
                    workers, idle_queue, timers, startup, _during_startup, timeouts,
                    model_scan, cancel_requested, cancel_observed, build_scheduled,
                    worker_writes, builds, unreadable,
                    empty_files, _selecting_video, selections, sub_calls, parserVars,
                    installVars >>

\* video_player.py 2040-2045: on_bus_message for an EOS message: stop(), then
\* progress-updated with position 0.
on_bus_message_EOS ==
    /\ player.playbin
    /\ player.playing
    /\ save_timers < MaxSaveTimers
    /\ player' = [player EXCEPT !.playing = FALSE]
    /\ on_video_progress_updated(player.duration, 0)
    /\ UNCHANGED << fs, last_folder, last_video, _loading_folder, scan_cancelled,
                    current_folder, _pending_folder_path, folder_navigation_stack,
                    folder_back_button, back_button, current_video_path, dialogs,
                    workers, idle_queue, timers, startup, _during_startup, timeouts,
                    model_scan, cancel_requested, cancel_observed, build_scheduled,
                    worker_writes, builds, unreadable,
                    empty_files, _selecting_video, selections, sub_calls, parserVars,
                    installVars >>

\* The folder that _save_progress_without_reload stores as last_folder.
folder_to_save == IF current_folder # None THEN current_folder ELSE last_folder

\* window.py 277, 281-323: a deferred _save_progress_without_reload fires.
_save_progress_without_reload ==
    /\ save_timers > 0
    /\ save_timers' = save_timers - 1
    /\ save_app_state(folder_to_save)
    /\ UNCHANGED << fs, progress_data, _loading_folder, scan_cancelled,
                    current_folder, _pending_folder_path, folder_navigation_stack,
                    folder_back_button, back_button, current_video_path, videos_model,
                    dialogs, workers, idle_queue, timers, startup, _during_startup,
                    timeouts, model_scan, cancel_requested, cancel_observed,
                    build_scheduled, worker_writes, builds, playerVars, parserVars,
                    installVars >>

(***************************************************************************)
(* A subtitle file picked by the user                                       *)
(***************************************************************************)

\* video_player.py 1617: the extensions _validate_subtitle_file accepts.
picked_extensions ==
    { <<".", "s", "r", "t">>, <<".", "v", "t", "t">>, <<".", "s", "u", "b">>,
      <<".", "s", "s", "a">>, <<".", "a", "s", "s">> }

\* video_player.py 1633-1667: the check of the first 1000 characters of a
\* file of extension ext.
has_subtitle_markers(ext, text1000) ==
    LET has_timestamps == Contains(text1000, << "-", "-", ">" >>)
        has_content == Len(Strip(text1000)) > 10
    IN  CASE ext = <<".", "s", "r", "t">> -> has_timestamps /\ has_content
          [] ext = <<".", "v", "t", "t">> ->
                 \/ StartsWith(Strip(text1000), << "W", "E", "B", "V", "T", "T" >>)
                 \/ has_timestamps /\ has_content
          [] ext \in { <<".", "s", "s", "a">>, <<".", "a", "s", "s">> } ->
                 \/ Contains(text1000, << "[", "S", "c", "r", "i", "p", "t", " ", "I", "n", "f", "o", "]" >>)
                 \/ Contains(text1000, << "[", "V", "4", "+", " ", "S", "t", "y", "l", "e", "s", "]" >>)
                 \/ Contains(text1000, << "[", "E", "v", "e", "n", "t", "s", "]" >>)
          [] OTHER -> \/ has_timestamps
                      \/ Contains(text1000, << "{" >>) /\ Contains(text1000, << "}" >>)

\* video_player.py 1609-1691: _validate_subtitle_file; big holds the files
\* larger than 10 MB, text the text of each file.
_validate_subtitle_file(fsys, empty, big, text, file_path) ==
    LET ext == Lower(splitext(file_path[Len(file_path)])[2])
    IN  /\ exists(fsys, file_path)
        /\ ext \in picked_extensions
        /\ ~is_empty(empty, file_path)
        /\ file_path \notin big
        /\ has_subtitle_markers(
               ext, SubSeq(text[file_path], 1,
                           IF Len(text[file_path]) < 1000 THEN Len(text[file_path])
                           ELSE 1000))

\* video_player.py 1561-1607: _on_subtitle_file_selected for the chosen path;
\* the player after the call, what _validate_subtitle_file returned and what
\* set_subtitle_file returned (None: not called).
on_subtitle_file_selected(p, fsys, empty, big, text, path) ==
    IF _validate_subtitle_file(fsys, empty, big, text, path)
    THEN LET set == set_subtitle_file(p, fsys, empty, path)
         IN  IF set.ret
             THEN [p |-> [set_subtitle_button_active(set.p)
                          EXCEPT !.subtitles_enabled = TRUE],
                   valid |-> TRUE, success |-> Some(TRUE)]
             ELSE [p |-> set.p, valid |-> TRUE, success |-> Some(FALSE)]
    ELSE [p |-> p, valid |-> FALSE, success |-> None]

\* The most subtitle files the user picks in one behaviour.
MaxPicks == 1

\* One entry of pick_calls: the path picked and the outcome.
PickCall(path, before, r) ==
    [path |-> path, before |-> before, after |-> r.p, valid |-> r.valid,
     success |-> r.success]

_on_subtitle_file_selected(path) ==
    /\ Len(pick_calls) < MaxPicks
    /\ LET r == on_subtitle_file_selected(player, fs, empty_files, big_files,
                                          file_content, path)
       IN  /\ player' = r.p
           /\ pick_calls' = Append(pick_calls, PickCall(path, player, r))
    /\ UNCHANGED << folderVars, parserVars, big_files, file_content, parsed_files,
                    unreadable, empty_files, _selecting_video, selections, sub_calls >>

(***************************************************************************)
(* Subtitle parsers: SRTParser and VTTParser                                *)
(***************************************************************************)

\* int(s) for a str without underscores: optional sign, decimal digits.
int(s) ==
    LET t == Strip(s)
        signed == t # <<>> /\ t[1] \in { "+", "-" }
        body == IF signed THEN Tail(t) ELSE t
    IN  IF IsDigits(body)
        THEN [raised |-> FALSE,
              value |-> IF signed /\ t[1] = "-" THEN 0 - DigitsValue(body)
                        ELSE DigitsValue(body)]
        ELSE [raised |-> TRUE, value |-> 0]

\* The first three decimals of a digit string, as thousandths.
thousandths(frac) ==
    DigitsValue(SubSeq(frac \o << "0", "0", "0" >>, 1, 3))

\* float(s) * 1000 for a plain decimal literal (digits, at most one point, no
\* exponent): the value in thousandths. The files of the model carry at most
\* three decimals, for which the thousandths are the exact value; the
\* rounding of the float product is monotone and keeps every comparison of
\* two such values.
float(s) ==
    LET t == Strip(s)
        signed == t # <<>> /\ t[1] \in { "+", "-" }
        body == IF signed THEN Tail(t) ELSE t
        parts == split(body, << "." >>)
        whole == parts[1]
        frac == IF Len(parts) = 2 THEN parts[2] ELSE <<>>
        ok == /\ Len(parts) <= 2
              /\ whole \o frac # <<>>
              /\ \A i \in 1..Len(whole) : whole[i] \in Range(Digits)
              /\ \A i \in 1..Len(frac) : frac[i] \in Range(Digits)
        v == 1000 * DigitsValue(whole) + thousandths(frac)
    IN  IF ok THEN [raised |-> FALSE,
                    value |-> IF signed /\ t[1] = "-" THEN 0 - v ELSE v]
        ELSE [raised |-> TRUE, value |-> 0]

\* (hours * 3600 + minutes * 60 + seconds) * 1000, or the ValueError of a
\* conversion.
to_ms(hours, minutes, seconds) ==
    IF hours.raised \/ minutes.raised \/ seconds.raised
    THEN [raised |-> TRUE, value |-> 0]
    ELSE [raised |-> FALSE,
          value |-> (hours.value * 3600 + minutes.value * 60) * 1000 + seconds.value]

\* video_player.py 2250-2260: SRTParser.time_to_ms
srt_time_to_ms(time_str) ==
    LET parts == split(replace(time_str, << "," >>, << "." >>), << ":" >>)
    IN  IF Len(parts) # 3 THEN [raised |-> FALSE, value |-> 0]
        ELSE to_ms(int(parts[1]), int(parts[2]), float(parts[3]))

\* video_player.py 2353-2368: VTTParser.time_to_ms
vtt_time_to_ms(time_str) ==
    LET parts == split(time_str, << ":" >>)
    IN  IF Len(parts) = 3 THEN to_ms(int(parts[1]), int(parts[2]), float(parts[3]))
        ELSE IF Len(parts) = 2
        THEN to_ms([raised |-> FALSE, value |-> 0], int(parts[1]), float(parts[2]))
        ELSE [raised |-> FALSE, value |-> 0]

Cue(start, end, text) == [start |-> start, end |-> end, text |-> text]

\* list.sort(key=lambda x: x['start']): a stable sort by start time.
RECURSIVE insert_by_start(_, _)
insert_by_start(x, ys) ==
    IF ys = <<>> THEN << x >>
    ELSE IF x.start <= ys[1].start THEN << x >> \o ys
    ELSE << ys[1] >> \o insert_by_start(x, Tail(ys))

RECURSIVE sort_by_start(_)
sort_by_start(cues) ==
    IF cues = <<>> THEN <<>>
    ELSE insert_by_start(cues[1], sort_by_start(Tail(cues)))

ARROW == << " ", "-", "-", ">", " " >>
NL == << "\n" >>

\* video_player.py 2220-2244: the cues one block of an SRT file appends.
srt_block(block) ==
    LET lines == split(block, NL)
        times == split(lines[2], ARROW)
        start_time == srt_time_to_ms(Strip(times[1]))
        end_time == srt_time_to_ms(Strip(times[2]))
    IN  IF Len(lines) < 3 THEN <<>>
        ELSE IF Len(times) # 2 THEN <<>>
        ELSE IF start_time.raised \/ end_time.raised THEN <<>>
        ELSE << Cue(start_time.value, end_time.value,
                    join(NL, SubSeq(lines, 3, Len(lines)))) >>

RECURSIVE srt_blocks(_)
srt_blocks(blocks) ==
    IF blocks = <<>> THEN <<>>
    ELSE srt_block(blocks[1]) \o srt_blocks(Tail(blocks))

\* video_player.py 2211-2248: SRTParser.parse; the subtitles list it leaves.
SRTParser_parse(text) ==
    IF text = <<>> THEN <<>>
    ELSE sort_by_start(
             srt_blocks(split(replace(Strip(text), << "\r", "\n" >>, NL),
                              << "\n", "\n" >>)))

\* video_player.py 2304-2347: the state of VTTParser.parse's loop. The cue
\* dicts live in `cues` under the number of the timing line that made them;
\* `out` lists the numbers appended to self.subtitles, so a dict appended twice
\* is the same dict in both places.
VttLoop(subtitle, text_lines, cues, out) ==
    [subtitle |-> subtitle, text_lines |-> text_lines, cues |-> cues, out |-> out]

\* video_player.py 2317-2319 and 2345-2347: `if subtitle and text_lines:` sets
\* the text of the current cue and appends it.
vtt_flush(st) ==
    IF st.subtitle # 0 /\ st.text_lines # <<>>
    THEN [st EXCEPT !.cues[st.subtitle].text = join(NL, st.text_lines),
                    !.out = Append(@, st.subtitle)]
    ELSE st

\* video_player.py 2307-2342: one iteration of the loop, for line number n.
vtt_line(st, raw, n) ==
    LET line == Strip(raw)
        flushed == vtt_flush(st)
        times == split(line, ARROW)
        start_time == vtt_time_to_ms(Strip(times[1]))
        end_time == vtt_time_to_ms(split(Strip(times[2]), << " " >>)[1])
    IN  IF line = <<>> \/ StartsWith(line, << "N", "O", "T", "E", " " >>) THEN st
        ELSE IF Contains(line, ARROW)
        THEN IF Len(times) # 2 THEN flushed
             ELSE IF start_time.raised \/ end_time.raised
             THEN [flushed EXCEPT !.subtitle = 0]
             ELSE [flushed EXCEPT !.subtitle = n,
                                  !.text_lines = <<>>,
                                  !.cues = (n :> Cue(start_time.value, end_time.value, <<>>))
                                           @@ @]
        ELSE IF st.subtitle # 0
        THEN [st EXCEPT !.text_lines = Append(@, line)]
        ELSE st

RECURSIVE vtt_lines(_, _, _)
vtt_lines(st, lines, n) ==
    IF n > Len(lines) THEN st
    ELSE vtt_lines(vtt_line(st, lines[n], n), lines, n + 1)

\* video_player.py 2292-2351: VTTParser.parse; the subtitles list it leaves.
VTTParser_parse(text) ==
    LET lines == split(replace(Strip(text), << "\r", "\n" >>, NL), NL)
        st == vtt_flush(vtt_lines(VttLoop(0, <<>>, <<>>, <<>>), lines, 2))
    IN  IF text = <<>> THEN <<>>
        ELSE IF ~StartsWith(lines[1], << "W", "E", "B", "V", "T", "T" >>) THEN <<>>
        ELSE sort_by_start([i \in 1..Len(st.out) |-> st.cues[st.out[i]]])

\* video_player.py 2270-2283: SRTParser.format_subtitle_text
srt_format_subtitle_text(text) ==
    LET escaped == replace(replace(replace(text, << "&" >>, << "&", "a", "m", "p", ";" >>),
                                   << "<" >>, << "&", "l", "t", ";" >>),
                           << ">" >>, << "&", "g", "t", ";" >>)
    IN  replace(replace(replace(replace(escaped,
            << "{", "b", "}" >>, << "<", "b", ">" >>),
            << "{", "/", "b", "}" >>, << "<", "/", "b", ">" >>),
            << "{", "i", "}" >>, << "<", "i", ">" >>),
            << "{", "/", "i", "}" >>, << "<", "/", "i", ">" >>)

\* video_player.py 2385-2388: the loop over allowed_tags, which replaces
\* '<tag>' by '<tag>' and '</tag>' by '</tag>'.
RECURSIVE restore_tags(_, _)
restore_tags(text, allowed_tags) ==
    IF allowed_tags = <<>> THEN text
    ELSE LET tag == allowed_tags[1]
         IN  restore_tags(replace(replace(text, << "<", tag, ">" >>, << "<", tag, ">" >>),
                                  << "<", "/", tag, ">" >>, << "<", "/", tag, ">" >>),
                          Tail(allowed_tags))

\* video_player.py 2377-2390: VTTParser.format_subtitle_text
vtt_format_subtitle_text(text) ==
    restore_tags(replace(replace(replace(text, << "&" >>, << "&", "a", "m", "p", ";" >>),
                                 << "<" >>, << "&", "l", "t", ";" >>),
                         << ">" >>, << "&", "g", "t", ";" >>),
                 << "b", "i", "u", "c" >>)

format_subtitle_text(format, text) ==
    IF format = "srt" THEN srt_format_subtitle_text(text)
    ELSE vtt_format_subtitle_text(text)

\* video_player.py 2262-2268 and 2370-2375: get_subtitle_at_time
get_subtitle_at_time(format, cues, timestamp_ms) ==
    LET hits == { i \in 1..Len(cues) :
                    cues[i].start <= timestamp_ms /\ timestamp_ms <= cues[i].end }
    IN  IF hits = {} THEN <<>>
        ELSE format_subtitle_text(format,
                 cues[CHOOSE i \in hits : \A j \in hits : i <= j].text)

(***************************************************************************)
(* The custom subtitle display                                              *)
(***************************************************************************)

\* video_player.py 1766-1843: on_subtitle_toggled with the button inactive.
on_subtitle_toggled_off(p) ==
    LET q == [p EXCEPT !.subtitle_button = FALSE, !.subtitles_enabled = FALSE]
    IN  IF q.playbin
        THEN [q EXCEPT !.subtitle_label = None, !.current_subtitle_text = None]
        ELSE q

\* A clear that leaves the custom parser and its display timer in place.
on_clear_subtitle_keeps_parser(p) ==
    LET q == [p EXCEPT !.subtitle_file = None,
                       !.subtitle_label = None,
                       !.suburi = IF p.playbin THEN None ELSE @,
                       !.cleared = TRUE]
    IN  [(IF q.subtitle_button THEN on_subtitle_toggled_off(q) ELSE q)
         EXCEPT !.subtitles_enabled = FALSE]

\* video_player.py 1707-1764: on_clear_subtitle_clicked. set_active(False) at
\* line 1759 runs the toggled handler when the button was active.
on_clear_subtitle_clicked(p) ==
    LET q == [p EXCEPT !.subtitle_file = None,
                       !.subtitle_label = None,
                       !.subtitle_timer = FALSE,
                       !.subtitle_parser = None,
                       !.suburi = IF p.playbin THEN None ELSE @,
                       !.cleared = TRUE]
    IN  [(IF q.subtitle_button THEN on_subtitle_toggled_off(q) ELSE q)
         EXCEPT !.subtitles_enabled = FALSE]

\* video_player.py 1067-1113: the parser class create_subtitle_parser picks
\* for a file: by its extension, else by the WEBVTT header of its text.
parser_format(path, text) ==
    LET ext == Lower(splitext(path[Len(path)])[2])
    IN  IF ext = << ".", "s", "r", "t" >> THEN "srt"
        ELSE IF ext = << ".", "v", "t", "t" >> THEN "vtt"
        ELSE IF StartsWith(Strip(text), << "W", "E", "B", "V", "T", "T" >>) THEN "vtt"
        ELSE "srt"

\* video_player.py 1095-1113: the subtitles list of the parser built for a
\* file.
parser_subtitles(path, text) ==
    IF parser_format(path, text) = "srt" THEN SRTParser_parse(text)
    ELSE VTTParser_parse(text)

\* video_player.py 1147: the markup handed to subtitle_label.set_markup
SPAN_OPEN == << "<", "s", "p", "a", "n", ">" >>
SPAN_CLOSE == << "<", "/", "s", "p", "a", "n", ">" >>
span(formatted_text) ==
    SPAN_OPEN \o formatted_text \o SPAN_CLOSE

\* video_player.py 1120-1178: update_subtitle_display at a playback position,
\* text holding the text of each file; subtitle_timer tells whether the timer
\* goes on.
show_subtitle(p, format, subtitle_text) ==
    IF Some(subtitle_text) = p.current_subtitle_text THEN p
    ELSE [p EXCEPT !.current_subtitle_text = Some(subtitle_text),
                   !.subtitle_label =
                       IF subtitle_text # <<>>
                       THEN Some(span(format_subtitle_text(format, subtitle_text)))
                       ELSE None]

updated_subtitle_display(p, text, position_ms) ==
    IF ~p.playbin \/ p.subtitle_parser = None \/ ~p.subtitles_enabled
    THEN [(IF ~p.subtitles_enabled /\ p.subtitle_label # None
           THEN [p EXCEPT !.subtitle_label = None, !.current_subtitle_text = None]
           ELSE p)
          EXCEPT !.subtitle_timer = p.subtitles_enabled]
    ELSE LET path == p.subtitle_parser[1]
             format == parser_format(path, text[path])
         IN  show_subtitle(p, format,
                           get_subtitle_at_time(format, parser_subtitles(path, text[path]),
                                                position_ms))

\* The most _check_and_force_subtitle_selection timers pending when the
\* subtitle button is toggled.
MaxPendingChecks == 1

\* A click on the subtitle toggle button.
subtitle_button_toggled ==
    /\ player.check_timers <= MaxPendingChecks
    /\ player' = IF player.subtitle_button THEN on_subtitle_toggled_off(player)
                 ELSE on_subtitle_toggled_on(player)
    /\ UNCHANGED << folderVars, parserVars, installVars, unreadable, empty_files,
                    _selecting_video, selections, sub_calls >>

\* A click on the clear button.
clear_subtitle_button_clicked ==
    /\ player' = on_clear_subtitle_clicked(player)
    /\ UNCHANGED << folderVars, parserVars, installVars, unreadable, empty_files,
                    _selecting_video, selections, sub_calls >>

\* The player after the user loaded a video or a subtitle file; a call that
\* changed nothing loaded nothing.
loaded(p, q) == IF q = p THEN p ELSE [q EXCEPT !.cleared = FALSE]

\* video_player.py 513-592: the user plays a video.
play_video(video_path) ==
    /\ player.check_timers <= MaxPendingChecks
    /\ player' = loaded(player,
                        load_video(player, fs, unreadable, empty_files, video_path).p)
    /\ UNCHANGED << folderVars, parserVars, installVars, unreadable, empty_files,
                    _selecting_video, selections, sub_calls >>

\* video_player.py 1561-1607: the user picks a subtitle file in the chooser.
pick_subtitle_file(path) ==
    /\ player.check_timers <= MaxPendingChecks
    /\ player' = loaded(player,
                        on_subtitle_file_selected(player, fs, empty_files, big_files,
                                                  file_content, path).p)
    /\ UNCHANGED << folderVars, parserVars, installVars, unreadable, empty_files,
                    _selecting_video, selections, sub_calls >>

\* The 50 ms display timer fires while playback is at position_ms.
update_subtitle_display(position_ms) ==
    /\ player.subtitle_timer
    /\ player' = updated_subtitle_display(player, file_content, position_ms)
    /\ UNCHANGED << folderVars, parserVars, installVars, unreadable, empty_files,
                    _selecting_video, selections, sub_calls >>

(***************************************************************************)
(* The folder-load specification                                            *)
(***************************************************************************)

\* No parser object has been constructed.
InitNoParser ==
    /\ content = <<>>
    /\ track_format = "srt"
    /\ subtitles = None
    /\ lookups = <<>>
    /\ markups = <<>>

\* No subtitle file has been picked by the user or handed to a parser; the
\* files have no recorded text and none is larger than 10 MB.
InitNoPicks ==
    /\ big_files = {}
    /\ file_content = <<>>
    /\ parsed_files = {}
    /\ pick_calls = <<>>

InitPlayerIdle ==
    /\ player = NewPlayer(TRUE)
    /\ unreadable = {}
    /\ empty_files = {}
    /\ _selecting_video = FALSE
    /\ selections = 0
    /\ sub_calls = <<>>
    /\ InitNoParser
    /\ InitNoPicks

\* window.py 24-55: the window after construction, for a progress file that
\* saved the given last folder and last video.
InitWindowProgress(saved_folder, saved_video, progress) ==
    /\ progress_data = progress
    /\ last_folder = saved_folder
    /\ last_video = saved_video
    /\ _saving_progress = FALSE
    /\ save_timers = 0
    /\ _loading_folder = FALSE
    /\ scan_cancelled = None
    /\ current_folder = None
    /\ _pending_folder_path = None
    /\ folder_navigation_stack = None
    /\ folder_back_button = FALSE
    /\ back_button = FALSE
    /\ current_video_path = None
    /\ videos_model = <<>>
    /\ dialogs = {}
    /\ workers = <<>>
    /\ idle_queue = <<>>
    /\ timers = <<>>
    /\ startup = [fn |-> "load_last_folder", folder |-> None]
    /\ _during_startup = FALSE
    /\ timeouts = {}
    /\ model_scan = 0
    /\ cancel_requested = {}
    /\ cancel_observed = {}
    /\ build_scheduled = {}
    /\ worker_writes = {}
    /\ builds = <<>>

\* A window whose progress file holds no video's progress.
InitWindow(saved_folder, saved_video) == InitWindowProgress(saved_folder, saved_video, <<>>)

\* The progress file names no folder, or the folder R and its video a.mp4.
Init ==
    /\ fs \in WindowTrees
    /\ \E saved \in { << None, None >>,
                      << Some(<< n_R >>), Some(<< n_R, n_a_mp4 >>) >> } :
           InitWindow(saved[1], saved[2])
    /\ InitPlayerIdle

\* The folders the folder chooser can return.
ChooserFolders == DOMAIN fs \ {<<>>}

Next ==
    \/ \E folder_path \in ChooserFolders :
           /\ on_open_folder_dialog_response(folder_path)
           /\ Len(workers') <= MaxLoads
    \/ \E k \in dialogs, closed \in BOOLEAN : on_scan_cancelled(k, closed)
    \/ on_back_to_library_clicked
    \/ \E i \in 1..Len(videos_model) :
           /\ videos_model[i].is_folder
           /\ on_folder_selected(emitted_folder_name(videos_model[i]))
    \/ on_folder_back_clicked
    \/ delayed_load /\ Len(workers') <= MaxLoads
    \/ load_last_folder
    \/ delayed_startup_load /\ Len(workers') <= MaxLoads
    \/ \E k \in 1..Len(workers) : scan_folder_thread(k)
    \/ idle_destroy
    \/ idle_show_error
    \/ build_folder_model
    \/ clear_startup_flag
    \/ \E i \in 1..Len(videos_model) : select_video(i)
    \/ reset_selecting_video
    \/ \E t \in timeouts, changed \in BOOLEAN :
           /\ t.fn = "delayed_select_video"
           /\ delayed_select_video(t.arg[1], changed)
    \/ \E t \in timeouts :
           /\ t.fn = "emit_video_selected"
           /\ emit_video_selected(t.arg[1])
    \/ reset_loading_flag

\* The window and its player: every handler, for MaxLoads folder loads and
\* MaxSelections video selections.
Spec == Init /\ [][Next]_vars

(***************************************************************************)
(* The folder-chooser specification: folders are opened through the chooser *)
(* only, up to MaxChooserLoads times                                        *)
(***************************************************************************)

MaxChooserLoads == 3

\* The saved state names no folder: the start-up timer loads nothing.
InitLoads ==
    /\ fs \in WindowTrees
    /\ InitWindow(None, None)
    /\ InitPlayerIdle

NextLoads ==
    \/ \E folder_path \in ChooserFolders :
           /\ on_open_folder_dialog_response(folder_path)
           /\ Len(workers') <= MaxChooserLoads
    \/ \E k \in dialogs, closed \in BOOLEAN : on_scan_cancelled(k, closed)
    \/ load_last_folder
    \/ \E k \in 1..Len(workers) : scan_folder_thread(k)
    \/ idle_destroy
    \/ idle_show_error
    \/ build_folder_model

SpecLoads == InitLoads /\ [][NextLoads]_vars

(***************************************************************************)
(* The navigation specification: folders of Scenario A are opened through   *)
(* the chooser, entered from the list and left with the Back button, up to  *)
(* MaxNavLoads loads                                                        *)
(***************************************************************************)

MaxNavLoads == 3

InitNav ==
    /\ fs = ScenarioA
    /\ InitWindow(None, None)
    /\ InitPlayerIdle

NextNav ==
    \/ \E folder_path \in ChooserFolders :
           /\ on_open_folder_dialog_response(folder_path)
           /\ Len(workers') <= MaxNavLoads
    \/ \E i \in 1..Len(videos_model) :
           /\ videos_model[i].is_folder
           /\ on_folder_selected(emitted_folder_name(videos_model[i]))
    \/ on_folder_back_clicked
    \/ delayed_load /\ Len(workers') <= MaxNavLoads
    \/ \E k \in 1..Len(workers) : scan_folder_thread(k)
    \/ build_folder_model

SpecNav == InitNav /\ [][NextNav]_vars

(***************************************************************************)
(* The playback specification: the folder R is opened, its videos are       *)
(* selected and played, the player reports positions and the end of the     *)
(* stream, progress is saved by timer and directly                          *)
(***************************************************************************)

\* The tree /{R/{a.mp4, b.mkv}}.
PlayTree ==
    (<<>> :> Dir(<< n_R >>, <<>>))
    @@ (<< n_R >> :> Dir(<<>>, << n_a_mp4, n_b_mkv >>))

MaxPlayLoads == 1

\* The positions the player reports, in seconds, and what query_duration
\* answers (0: the query fails).
Positions == { 3, 8 }
Durations == { 0, 10 }

InitPlay ==
    /\ fs = PlayTree
    /\ InitWindow(None, None)
    /\ \E has_playbin \in BOOLEAN : player = NewPlayer(has_playbin)
    /\ unreadable = {}
    /\ empty_files = {}
    /\ _selecting_video = FALSE
    /\ selections = 0
    /\ sub_calls = <<>>
    /\ InitNoParser
    /\ InitNoPicks

NextPlay ==
    \/ /\ on_open_folder_dialog_response(<< n_R >>)
       /\ Len(workers') <= MaxPlayLoads
    \/ \E k \in 1..Len(workers) : scan_folder_thread(k)
    \/ build_folder_model
    \/ \E i \in 1..Len(videos_model) : select_video(i)
    \/ reset_selecting_video
    \/ reset_loading_flag
    \/ \E position \in Positions, duration \in Durations :
           update_position(position, duration)
    \/ on_bus_message_EOS
    \/ _save_progress_without_reload
    \/ on_back_to_library_clicked

SpecPlay == InitPlay /\ [][NextPlay]_vars

\* GLib runs every timeout that was added: the 500 ms reset_selecting_video
\* and the 3000 ms reset_loading_flag fire once they are pending.
SpecPlayFair ==
    /\ SpecPlay
    /\ WF_vars(reset_selecting_video)
    /\ WF_vars(reset_loading_flag)

(***************************************************************************)
(* The folder-tree specification: the start-up load of the folder R, for    *)
(* every tree of Trees                                                      *)
(***************************************************************************)

n_a == << "a" >>
n_B == << "B" >>
n_S == << "S" >>
n_hidden == << ".", "h" >>
n_c_MP4 == << "c", ".", "M", "P", "4" >>
n_h_mp4 == << ".", "h", ".", "m", "p", "4" >>
n_n_txt == << "n", ".", "t", "x", "t" >>

\* The listings of R's own files, of R's subdirectories, and of the files
\* of each subdirectory.
TreeRootFiles ==
    { <<>>, << n_a_mp4 >>, << n_n_txt >>, << n_b_mkv, n_a_mp4 >>,
      << n_c_MP4, n_h_mp4 >> }
TreeDirs ==
    { <<>>, << n_Lectures >>, << n_a, n_B >>, << n_hidden >>,
      << n_B, n_Lectures, n_a >>, << FILES_KEY >> }
TreeDirFiles == { <<>>, << n_b_mkv >>, << n_n_txt >> }

\* The tree R/{root_files, d/{dir_files} for each d of dirs}; with nested,
\* the first directory of dirs also holds S/{b.mkv}.
Tree(root_files, dirs, dir_files, nested) ==
    LET deep == nested /\ dirs # <<>>
    IN  (<<>> :> Dir(<< n_R >>, <<>>))
        @@ (<< n_R >> :> Dir(dirs, root_files))
        @@ [p \in { << n_R, dirs[i] >> : i \in 1..Len(dirs) } |->
               Dir(IF deep /\ p[2] = dirs[1] THEN << n_S >> ELSE <<>>, dir_files)]
        @@ [p \in { << n_R, dirs[1], n_S >> : i \in (IF deep THEN {1} ELSE {}) } |->
               Dir(<<>>, << n_b_mkv >>)]

Trees ==
    { Tree(root_files, dirs, dir_files, nested) :
        root_files \in TreeRootFiles, dirs \in TreeDirs,
        dir_files \in TreeDirFiles, nested \in BOOLEAN }

\* What the progress file holds: nothing, or half of R/a.mp4 watched.
TreeProgress == { <<>>, << n_R, n_a_mp4 >> :> [percentage |-> 50] }

InitTree ==
    /\ fs \in Trees
    /\ \E progress \in TreeProgress : InitWindowProgress(Some(<< n_R >>), None, progress)
    /\ InitPlayerIdle

NextTree ==
    \/ /\ on_open_folder_dialog_response(<< n_R >>)
       /\ Len(workers') <= MaxLoads
    \/ load_last_folder
    \/ delayed_startup_load
    \/ \E k \in 1..Len(workers) : scan_folder_thread(k)
    \/ idle_show_error
    \/ build_folder_model
    \/ clear_startup_flag

SpecTree == InitTree /\ [][NextTree]_vars

(***************************************************************************)
(* The subtitle specification: the player's methods called for the videos   *)
(* c/m.mp4 and c/n.mp4, for every choice of subtitle files around them      *)
(***************************************************************************)

MaxSubtitleFiles == 2

n_c == << "c" >>
n_subs == << "s", "u", "b", "s" >>
n_m_mp4 == << "m", ".", "m", "p", "4" >>
n_n_mp4 == << "n", ".", "m", "p", "4" >>

\* The subtitle files that may exist: next to the video, in c/subs and in
\* the parent of c.
SubtitlePool ==
    << [dir |-> << n_c >>, name |-> << "m", ".", "e", "n", ".", "s", "r", "t" >>],
       [dir |-> << n_c >>, name |-> << "m", "_", "e", "n", ".", "s", "r", "t" >>],
       [dir |-> << n_c >>, name |-> << "m", "-", "e", "n", ".", "s", "r", "t" >>],
       [dir |-> << n_c >>, name |-> << "m", ".", "s", "r", "t" >>],
       [dir |-> << n_c, n_subs >>, name |-> << "M", ".", "s", "r", "t" >>],
       [dir |-> << n_c, n_subs >>, name |-> << "x", ".", "s", "r", "t" >>],
       [dir |-> <<>>, name |-> << "a", "m", ".", "s", "r", "t" >>],
       [dir |-> <<>>, name |-> << "z", ".", "s", "r", "t" >>] >>

\* The names of the chosen pool files of directory d, in pool order.
chosen_in(chosen, d) ==
    LET kept == Filter(SubtitlePool,
                       { SubtitlePool[i] : i \in { j \in chosen : SubtitlePool[j].dir = d } })
    IN  [i \in 1..Len(kept) |-> kept[i].name]

\* The tree /{c/{m.mp4, n.mp4, subs/}} with the chosen pool files; c/subs
\* exists when it holds a file or is one of the unreadable directories.
SubtitleTree(chosen, noread) ==
    LET subs == << n_c, n_subs >>
        has_subs == chosen_in(chosen, subs) # <<>> \/ subs \in noread
    IN  (<<>> :> Dir(<< n_c >>, chosen_in(chosen, <<>>)))
        @@ (<< n_c >> :> Dir(IF has_subs THEN << n_subs >> ELSE <<>>,
                             << n_m_mp4, n_n_mp4 >> \o chosen_in(chosen, << n_c >>)))
        @@ [p \in (IF has_subs THEN {subs} ELSE {}) |->
               Dir(<<>>, chosen_in(chosen, subs))]

InitSub ==
    /\ \E chosen \in { c \in SUBSET (1..Len(SubtitlePool)) :
                         Cardinality(c) <= MaxSubtitleFiles },
          noread \in { {}, { << n_c, n_subs >> }, { <<>> } },
          has_playbin \in BOOLEAN :
           /\ fs = SubtitleTree(chosen, noread)
           /\ unreadable = noread
           /\ empty_files \in
                  {{}} \cup { { Append(SubtitlePool[i].dir, SubtitlePool[i].name) } :
                              i \in chosen }
           /\ player = NewPlayer(has_playbin)
    /\ _selecting_video = FALSE
    /\ selections = 0
    /\ sub_calls = <<>>
    /\ InitNoParser
    /\ InitNoPicks
    /\ InitWindow(None, None)

NextSub ==
    \/ \E video_path \in VideoPaths : call_load_video(video_path)
    \/ \E video_path \in VideoPaths : call_load_subtitles(video_path)
    \/ reset_loading_flag
    \/ \E n_text \in {0, 1} : _check_and_force_subtitle_selection(n_text)

SpecSub == InitSub /\ [][NextSub]_vars

(***************************************************************************)
(* The parser specification: one parser object built from a text, then      *)
(* asked for the cue at a time                                              *)
(***************************************************************************)

\* The most blocks one subtitle text of the model holds.
MaxBlocks == 2

\* Blocks of SRT files: well-formed ones, one that ends before it starts, two
\* with malformed times, one without text.
SrtBlocks ==
    << << "1", "\n", "0", "0", ":", "0", "0", ":", "0", "1", ",", "0", "0", "0", " ", "-", "-", ">", " ", "0", "0", ":", "0", "0", ":", "0", "2", ",", "0", "0", "0", "\n", "H", "i" >>,
       << "2", "\n", "0", "0", ":", "0", "0", ":", "0", "2", ",", "0", "0", "0", " ", "-", "-", ">", " ", "0", "0", ":", "0", "0", ":", "0", "3", ",", "5", "0", "0", "\n", "a", "&", "b", "\n", "c" >>,
       << "3", "\n", "0", "0", ":", "0", "0", ":", "0", "5", ",", "0", "0", "0", " ", "-", "-", ">", " ", "0", "0", ":", "0", "0", ":", "0", "1", ",", "0", "0", "0", "\n", "H", "i" >>,
       << "4", "\n", "1", ":", "2", " ", "-", "-", ">", " ", "x", "\n", "H", "i" >>,
       << "5", "\n", "a", "a", ":", "0", "0", ":", "0", "1", ",", "0", "0", "0", " ", "-", "-", ">", " ", "0", "0", ":", "0", "0", ":", "0", "2", ",", "0", "0", "0", "\n", "H", "i" >>,
       << "6", "\n", "0", "0", ":", "0", "0", ":", "0", "1", ",", "0", "0", "0", " ", "-", "-", ">", " ", "0", "0", ":", "0", "0", ":", "0", "2", ",", "0", "0", "0" >> >>

\* Blocks of WebVTT files: cues with and without settings, a comment, a cue
\* that ends before it starts, a cue in SRT notation, a line with two arrows.
VttBlocks ==
    << << "0", "0", ":", "0", "0", ":", "0", "1", ".", "0", "0", "0", " ", "-", "-", ">", " ", "0", "0", ":", "0", "0", ":", "0", "2", ".", "0", "0", "0", "\n", "H", "i" >>,
       << "0", "0", ":", "0", "2", ".", "0", "0", "0", " ", "-", "-", ">", " ", "0", "0", ":", "0", "3", ".", "5", "0", "0", " ", "a", "l", "i", "g", "n", ":", "s", "t", "a", "r", "t", "\n", "a", "&", "b", "\n", "c" >>,
       << "0", "0", ":", "0", "0", ":", "0", "5", ".", "0", "0", "0", " ", "-", "-", ">", " ", "0", "0", ":", "0", "0", ":", "0", "1", ".", "0", "0", "0", "\n", "H", "i" >>,
       << "N", "O", "T", "E", " ", "x" >>,
       << "1", "\n", "0", "0", ":", "0", "0", ":", "0", "1", ",", "0", "0", "0", " ", "-", "-", ">", " ", "0", "0", ":", "0", "0", ":", "0", "2", ",", "0", "0", "0", "\n", "H", "i" >>,
       << "0", "0", ":", "0", "0", ":", "0", "3", ".", "0", "0", "0", " ", "-", "-", ">", " ", "0", "0", ":", "0", "0", ":", "0", "4", ".", "0", "0", "0", " ", "-", "-", ">", " ", "x", "\n", "y", "o" >> >>

\* What separates two blocks: one blank line, two blank lines, one blank line
\* with Windows line endings.
BlockSeparators ==
    { << "\n", "\n" >>, << "\n", "\n", "\n" >>, << "\r", "\n", "\r", "\n" >> }

\* The texts of at most n blocks of the pool.
RECURSIVE Texts(_, _)
Texts(pool, n) ==
    IF n = 1 THEN Range(pool)
    ELSE Texts(pool, n - 1)
         \cup { t \o sep \o b : t \in Texts(pool, n - 1), sep \in BlockSeparators,
                                b \in Range(pool) }

VttHeaders == { << "W", "E", "B", "V", "T", "T", "\n", "\n" >>, <<>> }

Contents(format) ==
    IF format = "srt" THEN Texts(SrtBlocks, MaxBlocks)
    ELSE { h \o t : h \in VttHeaders, t \in Texts(VttBlocks, MaxBlocks) }

\* The playback positions a cue is asked for, in milliseconds.
LookupTimes == { 0, 1000, 1500, 2000, 3500, 9000 }

InitParse ==
    /\ track_format \in { "srt", "vtt" }
    /\ content \in Contents(track_format)
    /\ subtitles = None
    /\ lookups = <<>>
    /\ markups = <<>>
    /\ fs = ScenarioA
    /\ InitWindow(None, None)
    /\ player = NewPlayer(TRUE)
    /\ unreadable = {}
    /\ empty_files = {}
    /\ _selecting_video = FALSE
    /\ selections = 0
    /\ sub_calls = <<>>
    /\ InitNoPicks

\* video_player.py 2207-2209: SRTParser(content)
SRTParser_init ==
    /\ track_format = "srt"
    /\ subtitles = None
    /\ subtitles' = Some(SRTParser_parse(content))
    /\ UNCHANGED << folderVars, playerVars, installVars, content, track_format, lookups,
                    markups >>

\* video_player.py 2288-2290: VTTParser(content)
VTTParser_init ==
    /\ track_format = "vtt"
    /\ subtitles = None
    /\ subtitles' = Some(VTTParser_parse(content))
    /\ UNCHANGED << folderVars, playerVars, installVars, content, track_format, lookups,
                    markups >>

\* parser.get_subtitle_at_time(timestamp_ms); lookups keeps the latest call.
call_get_subtitle_at_time(timestamp_ms) ==
    /\ subtitles # None
    /\ lookups' = << [timestamp_ms |-> timestamp_ms,
                      text |-> get_subtitle_at_time(track_format, subtitles[1],
                                                    timestamp_ms)] >>
    /\ UNCHANGED << folderVars, playerVars, installVars, content, track_format, subtitles,
                    markups >>

\* The cue texts that are formatted: inline tags of both notations, and the
\* characters that markup reserves.
FormatTexts ==
    { << "<", "b", ">", "x", "<", "/", "b", ">" >>,
      << "a", "<", "c", ">", "b", "<", "/", "c", ">" >>,
      << "<", "i", ">", "&", "<", "/", "u", ">" >>,
      << "1", "<", "2", "&", "3", ">" >>,
      << "{", "b", "}", "x", "{", "/", "b", "}" >>,
      << "{", "i", "}", "y", "{", "/", "i", "}", "<" >> }

\* parser.format_subtitle_text(text); markups keeps the latest call.
call_format_subtitle_text(text) ==
    /\ subtitles # None
    /\ markups' = << [text |-> text, markup |-> format_subtitle_text(track_format, text)] >>
    /\ UNCHANGED << folderVars, playerVars, installVars, content, track_format, subtitles,
                    lookups >>

NextParse ==
    \/ SRTParser_init
    \/ VTTParser_init
    \/ \E timestamp_ms \in LookupTimes : call_get_subtitle_at_time(timestamp_ms)
    \/ \E text \in FormatTexts : call_format_subtitle_text(text)

SpecParse == InitParse /\ [][NextParse]_vars

(***************************************************************************)
(* The installation specification: subtitle files of every size class       *)
(* found next to c/m.mp4 or picked by the user                              *)
(***************************************************************************)

n_m_srt == << "m", ".", "s", "r", "t" >>
n_x_vtt == << "x", ".", "v", "t", "t" >>

\* The tree /{c/{m.mp4, m.srt, x.vtt, n.txt}}.
PickTree ==
    (<<>> :> Dir(<< n_c >>, <<>>))
    @@ (<< n_c >> :> Dir(<<>>, << n_m_mp4, n_m_srt, n_x_vtt, n_n_txt >>))

PickFiles == { << n_c, n_m_srt >>, << n_c, n_x_vtt >>, << n_c, n_n_txt >> }

\* What a file that is not empty may hold: cues, or a text without one.
FileTexts == { SrtBlocks[1], << "h", "e", "l", "l", "o", ",", " ", "w", "o", "r", "l", "d" >> }

InitPick ==
    /\ fs = PickTree
    /\ empty_files \in SUBSET { << n_c, n_m_srt >>, << n_c, n_x_vtt >> }
    /\ big_files \in SUBSET ({ << n_c, n_m_srt >>, << n_c, n_x_vtt >> } \ empty_files)
    /\ file_content \in [PickFiles -> FileTexts \cup { <<>> }]
    /\ \A f \in PickFiles : file_content[f] = <<>> <=> f \in empty_files
    /\ \E has_playbin \in BOOLEAN : player = NewPlayer(has_playbin)
    /\ unreadable = {}
    /\ parsed_files = {}
    /\ pick_calls = <<>>
    /\ _selecting_video = FALSE
    /\ selections = 0
    /\ sub_calls = <<>>
    /\ InitNoParser
    /\ InitWindow(None, None)

NextPick ==
    \/ \E video_path \in VideoPaths : call_load_video(video_path)
    \/ \E video_path \in VideoPaths : call_load_subtitles(video_path)
    \/ \E path \in PickFiles : _on_subtitle_file_selected(path)
    \/ reset_loading_flag
    \/ \E n_text \in {0, 1} : _check_and_force_subtitle_selection(n_text)

SpecPick == InitPick /\ [][NextPick]_vars

(***************************************************************************)
(* The display specification: c/m.mp4 with the subtitle c/m.srt next to it, *)
(* c/n.mp4 without one; GStreamer finds a text track or not, the custom     *)
(* parser shows cues, the user toggles, clears and picks subtitles          *)
(***************************************************************************)

\* The tree /{c/{m.mp4, m.srt, n.mp4, x.vtt}}.
ShowTree ==
    (<<>> :> Dir(<< n_c >>, <<>>))
    @@ (<< n_c >> :> Dir(<<>>, << n_m_mp4, n_m_srt, n_n_mp4, n_x_vtt >>))

ShowFiles == { << n_c, n_m_srt >>, << n_c, n_x_vtt >> }

\* The subtitle texts: a plain cue and a cue with a reserved character.
ShowTexts ==
    (<< n_c, n_m_srt >> :> SrtBlocks[1] \o << "\n", "\n" >> \o SrtBlocks[2])
    @@ (<< n_c, n_x_vtt >> :> << "W", "E", "B", "V", "T", "T", "\n", "\n" >> \o VttBlocks[2])

\* The playback positions at which the display timer fires, in ms.
ShowTimes == { 0, 1500, 3000 }

InitShow ==
    /\ fs = ShowTree
    /\ empty_files = {}
    /\ big_files = {}
    /\ file_content = ShowTexts
    /\ \E has_playbin \in BOOLEAN : player = NewPlayer(has_playbin)
    /\ unreadable = {}
    /\ parsed_files = {}
    /\ pick_calls = <<>>
    /\ _selecting_video = FALSE
    /\ selections = 0
    /\ sub_calls = <<>>
    /\ InitNoParser
    /\ InitWindow(None, None)

NextShow ==
    \/ \E video_path \in VideoPaths : play_video(video_path)
    \/ \E path \in ShowFiles : pick_subtitle_file(path)
    \/ reset_loading_flag
    \/ \E n_text \in {0, 1} : _check_and_force_subtitle_selection(n_text)
    \/ \E position_ms \in ShowTimes : update_subtitle_display(position_ms)
    \/ subtitle_button_toggled
    \/ clear_subtitle_button_clicked

SpecShow == InitShow /\ [][NextShow]_vars

(***************************************************************************)
(* Properties                                                               *)
(***************************************************************************)

\* C1: at most one folder load is scanning at any time: no two scan
\* workers run concurrently.
C1_OneScanAtATime ==
    Cardinality({ k \in 1..Len(workers) : workers[k].pc # "done" }) <= 1

\* C2: a folder load returns to idle: once every scan worker has ended and
\* no callback or timer of a load is pending, _loading_folder is false, so a
\* later load request is accepted.
C2_ReturnsToIdle ==
    (/\ \A k \in 1..Len(workers) : workers[k].pc = "done"
     /\ idle_queue = <<>>
     /\ timers = <<>>)
    => ~_loading_folder

\* C3: a cancel requested after the load started its scan and before the
\* worker finished its walk stops that scan: the worker never schedules
\* build_folder_model for it.
C3_CancelStopsScan == cancel_requested \cap build_scheduled = {}

\* C4: the structure of a cancelled scan is discarded: the library model is
\* never the one built from a scan whose cancellation was observed, and while
\* the latest load is one whose cancellation was observed the model is the
\* empty model that load installed when it started.
C4_CancelledScanDiscarded ==
    /\ model_scan \notin cancel_observed
    /\ (workers # <<>> /\ Len(workers) \in cancel_observed) => videos_model = <<>>

\* C5: the scan worker never assigns a window attribute itself; every effect
\* on the window goes through a callback handed to GLib.idle_add.
C5_WorkerWritesNothing == worker_writes = {}

\* The kind, the label and the indent level of a row.
row_shape(row) ==
    << row.is_folder,
       IF row.is_folder THEN SubSeq(row.title, 3, Len(row.title)) ELSE row.title,
       row.indent_level >>

\* C6: the rows are in depth-first pre-order: the row of a top-level folder
\* that holds videos is followed at once by a video row at indent 1; for
\* R/{a.mp4, Lectures/{b.mkv}} the rows are Folder Lectures (0), Video b (1),
\* Folder Root Files (0), Video a (0).
C6_RowsInPreOrder ==
    model_scan # 0 =>
        LET rows == videos_model
            s == workers[model_scan].structure
        IN  /\ \A i \in 1..Len(rows) :
                   (/\ rows[i].is_folder
                    /\ rows[i].folder_name # << "." >>
                    /\ video_count(s, << rows[i].folder_name >>) > 0)
                   => /\ i < Len(rows)
                      /\ ~rows[i + 1].is_folder
                      /\ rows[i + 1].indent_level = 1
            /\ fs = ScenarioA =>
                   [i \in 1..Len(rows) |-> row_shape(rows[i])]
                   = << << TRUE, n_Lectures, 0 >>, << FALSE, << "b" >>, 1 >>,
                        << TRUE, RootFilesName, 0 >>, << FALSE, << "a" >>, 0 >> >>

\* C7: in a built model the Root Files row appears once when the scanned
\* root has files and folders and not otherwise; without folders the root's
\* files are the rows, at indent 0; the Root Files row and the root's files
\* follow every top-level folder row, and the videos are the root's files.
C7_RootFilesRow ==
    model_scan # 0 =>
        LET rows == videos_model
            s == workers[model_scan].structure
            root_files == IF << FILES_KEY >> \in DOMAIN s
                             /\ s[<< FILES_KEY >>].kind = "list"
                          THEN s[<< FILES_KEY >>].items ELSE <<>>
            folders == Keys(s, <<>>) \ {FILES_KEY}
            headers == { i \in 1..Len(rows) :
                           rows[i].is_folder /\ rows[i].folder_name = << "." >> }
            top == { i \in 1..Len(rows) :
                       rows[i].is_folder /\ rows[i].folder_name # << "." >> }
            videos == { i \in 1..Len(rows) : ~rows[i].is_folder }
        IN  /\ Cardinality(headers) =
                   (IF root_files # <<>> /\ folders # {} THEN 1 ELSE 0)
            /\ folders = {} => /\ Len(rows) = Len(root_files)
                               /\ \A i \in 1..Len(rows) :
                                      ~rows[i].is_folder /\ rows[i].indent_level = 0
            /\ \A j \in top : \A i \in headers \cup videos : j < i
            /\ \A h \in headers : \A i \in videos : h < i
            /\ { rows[i].file_path : i \in videos }
               = { root_files[i].path : i \in 1..Len(root_files) }
            /\ { rows[i].folder_name : i \in top } = folders

\* A model with two folder rows, the Root Files row and a root file.
C7_RootFilesShown ==
    /\ model_scan # 0
    /\ Len(videos_model) >= 4
    /\ \E i \in 1..Len(videos_model) :
           /\ videos_model[i].is_folder
           /\ videos_model[i].folder_name = << "." >>
           /\ i < Len(videos_model)

\* video_player.py 781-853: the files that satisfy pattern n for the video.
pattern_matches(fsys, video_path, n) ==
    LET directory == dirname(video_path)
        base_name == splitext(video_path[Len(video_path)])[1]
        sep == CASE n = 1 -> << "." >> [] n = 2 -> << "_" >> [] n = 3 -> << "-" >>
                 [] OTHER -> <<>>
        listed(dir, in_subdir) ==
            IF dir \notin DOMAIN fsys THEN {}
            ELSE { Append(dir, f) :
                     f \in { g \in Range(listdir(fsys, dir)) :
                               IF in_subdir THEN subdir_match(g, base_name)
                               ELSE parent_match(g, base_name) } }
    IN  CASE n \in {1, 2, 3} ->
               { p \in { Append(directory, base_name \o sep \o l \o e) :
                           l \in Range(language_codes), e \in Range(subtitle_extensions) } :
                   exists(fsys, p) }
          [] n = 4 ->
               { p \in { Append(directory, base_name \o e) :
                           e \in Range(subtitle_extensions) } :
                   exists(fsys, p) }
          [] n = 5 ->
               UNION { listed(Append(directory, d), TRUE) : d \in Range(subtitle_dirs) }
          [] n = 6 -> listed(dirname(directory), FALSE)

\* C8: a load_subtitles call that searches selects a file of the
\* lowest-numbered pattern that has a match, and none when no pattern has
\* one; a selected file that is not empty becomes subtitle_file; with
\* m.en.srt and m.srt next to m.mp4 it selects m.en.srt.
C8_PatternRanking ==
    \A i \in 1..Len(sub_calls) :
        LET c == sub_calls[i]
            ranks == { n \in 1..6 : pattern_matches(fs, c.video_path, n) # {} }
            best == CHOOSE n \in ranks : \A m \in ranks : n <= m
        IN  (~c.skipped /\ ~c.raised) =>
                IF ranks = {} THEN c.found = None
                ELSE /\ c.found # None
                     /\ c.rank = best
                     /\ c.found[1] \in pattern_matches(fs, c.video_path, best)
                     /\ ~is_empty(empty_files, c.found[1])
                        => c.after.subtitle_file = c.found
                     /\ (/\ c.video_path = << n_c, n_m_mp4 >>
                         /\ exists(fs, << n_c, << "m", ".", "e", "n", ".", "s", "r", "t" >> >>)
                         /\ exists(fs, << n_c, << "m", ".", "s", "r", "t" >> >>))
                        => c.found
                           = Some(<< n_c, << "m", ".", "e", "n", ".", "s", "r", "t" >> >>)

\* m.en.srt was selected for m.mp4 although m.srt exists too.
C8_LanguageBeatsGeneric ==
    \E i \in 1..Len(sub_calls) :
        /\ sub_calls[i].video_path = << n_c, n_m_mp4 >>
        /\ sub_calls[i].found = Some(<< n_c, << "m", ".", "e", "n", ".", "s", "r", "t" >> >>)
        /\ exists(fs, << n_c, << "m", ".", "s", "r", "t" >> >>)

\* C9: a load_subtitles call that finds the video already checked leaves
\* subtitle_file, the parser and the shown text as they are and returns what
\* the call that searched for this video returned.
C9_RepeatedCallCached ==
    \A i \in 1..Len(sub_calls) :
        sub_calls[i].skipped =>
            /\ sub_calls[i].after.subtitle_file = sub_calls[i].before.subtitle_file
            /\ sub_calls[i].after.subtitle_parser = sub_calls[i].before.subtitle_parser
            /\ sub_calls[i].after.subtitle_label = sub_calls[i].before.subtitle_label
            /\ sub_calls[i].after.current_subtitle_text
               = sub_calls[i].before.current_subtitle_text
            /\ \A j \in 1..(i - 1) :
                   (/\ ~sub_calls[j].skipped
                    /\ ~sub_calls[j].raised
                    /\ sub_calls[j].video_path = sub_calls[i].video_path
                    /\ \A l \in (j + 1)..(i - 1) : sub_calls[l].skipped)
                   => sub_calls[i].ret = sub_calls[j].ret

\* C10: load_subtitles never raises: a directory that cannot be listed
\* counts as holding no candidate.
C10_NeverRaises == \A i \in 1..Len(sub_calls) : ~sub_calls[i].raised

\* The blocks of a text: its maximal runs of lines that are not empty, the
\* lines being what "\n" (or "\r\n") ends.
RECURSIVE line_blocks(_, _, _)
line_blocks(lines, run, out) ==
    IF lines = <<>> THEN (IF run = <<>> THEN out ELSE Append(out, run))
    ELSE IF Head(lines) = <<>>
         THEN line_blocks(Tail(lines), <<>>, IF run = <<>> THEN out ELSE Append(out, run))
         ELSE line_blocks(Tail(lines), Append(run, Head(lines)), out)

blocks_of(text) == line_blocks(split(replace(text, << "\r", "\n" >>, NL), NL), <<>>, <<>>)

\* A time token HH:MM:SS,mmm.
well_formed_time(token) ==
    /\ Len(token) = 12
    /\ \A i \in { 1, 2, 4, 5, 7, 8, 10, 11, 12 } : token[i] \in Range(Digits)
    /\ token[3] = ":" /\ token[6] = ":" /\ token[9] = ","

time_value(token) ==
    (DigitsValue(SubSeq(token, 1, 2)) * 3600 + DigitsValue(SubSeq(token, 4, 5)) * 60
     + DigitsValue(SubSeq(token, 7, 8))) * 1000 + DigitsValue(SubSeq(token, 10, 12))

well_formed_block(b) ==
    /\ Len(b) >= 3
    /\ LET tokens == split(b[2], ARROW)
       IN  Len(tokens) = 2 /\ well_formed_time(tokens[1]) /\ well_formed_time(tokens[2])

block_cue(b) ==
    LET tokens == split(b[2], ARROW)
    IN  Cue(time_value(tokens[1]), time_value(tokens[2]), join(NL, SubSeq(b, 3, Len(b))))

\* C11: the cues SRTParser.parse yields are exactly the cues of the
\* well-formed blocks of the text, one per block: a block of fewer than three
\* lines or whose second line is not two HH:MM:SS,mmm times around " --> "
\* yields none, and every other block yields its cue whatever precedes it.
C11_ExactlyMalformedSkipped ==
    (track_format = "srt" /\ subtitles # None) =>
        LET blocks == blocks_of(content)
            good == Filter(blocks, { b \in Range(blocks) : well_formed_block(b) })
        IN  /\ Len(subtitles[1]) = Len(good)
            /\ \A i \in 1..Len(good) :
                   \E j \in 1..Len(subtitles[1]) : subtitles[1][j] = block_cue(good[i])

\* C12: the cue track a parser built is sorted ascending by start time and
\* every cue of it starts no later than it ends.
C12_SortedAndOrderedCues ==
    subtitles # None =>
        /\ \A i \in 1..(Len(subtitles[1]) - 1) :
               subtitles[1][i].start <= subtitles[1][i + 1].start
        /\ \A i \in 1..Len(subtitles[1]) : subtitles[1][i].start <= subtitles[1][i].end

\* The cues of a track that contain a time, bounds included.
containing(cues, timestamp_ms) ==
    { i \in 1..Len(cues) : cues[i].start <= timestamp_ms /\ timestamp_ms <= cues[i].end }

\* C13: get_subtitle_at_time(t) returns the stored text of the first cue of
\* the track that contains t, and the empty string when no cue contains t.
C13_LookupReturnsStoredText ==
    \A k \in 1..Len(lookups) :
        LET hits == containing(subtitles[1], lookups[k].timestamp_ms)
        IN  lookups[k].text
            = IF hits = {} THEN <<>>
              ELSE subtitles[1][CHOOSE i \in hits : \A j \in hits : i <= j].text

\* C14: no file of size 0 or larger than 10 MB is ever handed to
\* create_subtitle_parser, whether load_subtitles found it or the user
\* picked it.
C14_NoBadSizeParsed == parsed_files \cap (empty_files \cup big_files) = {}

\* The player holds nothing of the file at path: it is not subtitle_file, no
\* parser was built from it and it is not playbin's suburi.
nothing_active(p, path) ==
    /\ p.subtitle_file # Some(path)
    /\ p.subtitle_parser # Some(path)
    /\ p.suburi # Some(path)

\* C15: when set_subtitle_file (called by load_subtitles or for a picked
\* file) or _validate_subtitle_file returned False for a path, then after the
\* call subtitle_file is not that path and neither a parser nor playbin's
\* suburi comes from it.
C15_RejectedFileNotActive ==
    /\ \A i \in 1..Len(sub_calls) :
           (sub_calls[i].found # None /\ ~sub_calls[i].raised /\ ~sub_calls[i].ret)
           => nothing_active(sub_calls[i].after, sub_calls[i].found[1])
    /\ \A i \in 1..Len(pick_calls) :
           (~pick_calls[i].valid \/ pick_calls[i].success = Some(FALSE))
           => nothing_active(pick_calls[i].after, pick_calls[i].path)

built == { builds[i].scan : i \in 1..Len(builds) }

\* C17 as stated: the cancelled outcome is entered from the scanning phase
\* only, so no scan that its worker handed off for building is ever a
\* cancelled one.
C17_CancelledOnlyWhileScanning == cancel_observed \cap build_scheduled = {}

\* C17: a load is built only after its worker handed the structure off, the
\* worker hands off only as its last step, and a cancellation is observed
\* either by the walking worker or by build_folder_model before it installs
\* any row: a load whose rows were installed is not a cancelled one.
C17_CancelledBeforeRows ==
    /\ built \subseteq build_scheduled
    /\ \A k \in build_scheduled : workers[k].pc = "done"
    /\ cancel_observed \cap built = {}

\* build_folder_model found the scan cancelled: the load was handed off for
\* building and ended as a cancelled one, without rows.
C17_CancelledAtBuild ==
    \E k \in cancel_observed \cap build_scheduled : k \notin built /\ videos_model = <<>>

\* Name a is not after name b in case-insensitive order.
not_after_ignoring_case(a, b) == ~StrLess(Lower(b), Lower(a))

\* C18: in every model that build_folder_model installed, the rows of the
\* top-level folders are in ascending case-insensitive order of folder name
\* and the rows of the root's files in ascending case-insensitive order of
\* file name.
C18_RowsOrderedIgnoringCase ==
    \A b \in 1..Len(builds) :
        LET rows == builds[b].rows
            folders == { i \in 1..Len(rows) :
                           rows[i].is_folder /\ rows[i].folder_name # << "." >> }
            files == { i \in 1..Len(rows) : ~rows[i].is_folder }
        IN  /\ \A i, j \in folders :
                   i < j => not_after_ignoring_case(rows[i].folder_name,
                                                    rows[j].folder_name)
            /\ \A i, j \in files :
                   i < j => not_after_ignoring_case(
                                rows[i].file_path[Len(rows[i].file_path)],
                                rows[j].file_path[Len(rows[j].file_path)])

\* The directories at or below root that are reached without passing a name
\* that starts with ".".
open_dirs(fsys, root) ==
    { d \in DOMAIN fsys :
        /\ Len(d) >= Len(root)
        /\ SubSeq(d, 1, Len(root)) = root
        /\ \A i \in (Len(root) + 1)..Len(d) : d[i][1] # "." }

\* The paths of the files that a structure records, over all its buckets.
recorded_files(s) ==
    UNION { { s[q].items[i].path : i \in 1..Len(s[q].items) } :
            q \in { r \in DOMAIN s : s[r].kind = "list" } }

\* C19: the files a completed walk recorded are exactly the files below the
\* root, outside hidden directories, whose name does not start with "." and
\* whose extension is, ignoring case, in the allow-list; no node of the
\* structure stands for a hidden directory.
C19_OnlyVisibleVideosRecorded ==
    \A k \in build_scheduled :
        /\ recorded_files(workers[k].structure)
           = { f \in AllFiles(fs) :
                 /\ dirname(f) \in open_dirs(fs, workers[k].folder)
                 /\ f[Len(f)][1] # "."
                 /\ Lower(splitext(f[Len(f)])[2]) \in VIDEO_EXTENSIONS }
        /\ \A q \in DOMAIN workers[k].structure : \A i \in 1..Len(q) : q[i][1] # "."

\* The file paths in the bucket of the node at key path rel, none when the
\* node has no bucket.
bucket(s, rel) ==
    LET key == Append(rel, FILES_KEY)
    IN  IF key \in DOMAIN s /\ s[key].kind = "list"
        THEN { s[key].items[i].path : i \in 1..Len(s[key].items) }
        ELSE {}

\* The structure s of a walk of root has, for directory d, a node at d's
\* relative path whose bucket holds exactly the video files of d.
mirrors(s, root, d) ==
    LET rel == SubSeq(d, Len(root) + 1, Len(d))
        videos == video_files_of(fs[d].files)
    IN  /\ rel \in DOMAIN s
        /\ s[rel].kind = "dict"
        /\ bucket(s, rel) = { Append(d, videos[i]) : i \in 1..Len(videos) }

\* C20: a walk that ended without being cancelled handed off a structure that
\* has, for every directory below the root outside hidden directories,
\* whatever its name, a node at its relative path whose bucket holds exactly
\* its own video files; every recorded file is in the bucket of its own
\* directory's node.
C20_StructureMirrorsTree ==
    \A k \in 1..Len(workers) :
        (workers[k].pc = "done" /\ (k \in cancel_observed => k \in build_scheduled))
        => /\ k \in build_scheduled
           /\ \A d \in open_dirs(fs, workers[k].folder) :
                  mirrors(workers[k].structure, workers[k].folder, d)
           /\ recorded_files(workers[k].structure)
              = UNION { bucket(workers[k].structure,
                               SubSeq(d, Len(workers[k].folder) + 1, Len(d))) :
                        d \in open_dirs(fs, workers[k].folder) }

\* The markup of a character outside a tag.
escaped(c) ==
    CASE c = "&" -> << "&", "a", "m", "p", ";" >>
      [] c = "<" -> << "&", "l", "t", ";" >>
      [] c = ">" -> << "&", "g", "t", ";" >>
      [] OTHER -> << c >>

\* The text read left to right: an inline tag of tags (pairs of notation and
\* markup tag) gives its markup tag, every other character its escaped form.
RECURSIVE markup_of(_, _)
markup_of(tags, text) ==
    IF text = <<>> THEN <<>>
    ELSE LET here == { t \in tags : StartsWith(text, t[1]) }
         IN  IF here # {}
             THEN LET t == CHOOSE t \in here : TRUE
                  IN  t[2] \o markup_of(tags, SubSeq(text, Len(t[1]) + 1, Len(text)))
             ELSE escaped(text[1]) \o markup_of(tags, Tail(text))

\* The inline tags of WebVTT cue text, kept as they are.
vtt_tags ==
    { << << "<" >> \o slash \o << tag, ">" >>, << "<" >> \o slash \o << tag, ">" >> >> :
        slash \in { <<>>, << "/" >> }, tag \in { "b", "i", "u", "c" } }

\* The inline tags of SRT cue text and their markup tags.
srt_tags ==
    { << << "{" >> \o slash \o << tag, "}" >>, << "<" >> \o slash \o << tag, ">" >> >> :
        slash \in { <<>>, << "/" >> }, tag \in { "b", "i" } }

\* C21: format_subtitle_text gives the text with its whitelisted inline tags
\* as markup tags (for WebVTT <b>, </b>, <i>, </i>, <u>, </u>, <c>, </c>
\* unchanged, for SRT {b}, {/b}, {i}, {/i} as <b>, </b>, <i>, </i>) and every
\* other &, < and > escaped.
C21_TagsRestored ==
    \A k \in 1..Len(markups) :
        markups[k].markup
        = markup_of(IF track_format = "srt" THEN srt_tags ELSE vtt_tags, markups[k].text)

\* The timing lines of a WebVTT text, each with the text lines that follow it
\* up to the next timing line; lines are stripped, empty lines and comments
\* skipped, text lines before the first timing line belong to no cue.
RECURSIVE timing_groups(_, _)
timing_groups(lines, out) ==
    IF lines = <<>> THEN out
    ELSE LET line == Strip(lines[1])
         IN  IF line = <<>> \/ StartsWith(line, << "N", "O", "T", "E", " " >>)
             THEN timing_groups(Tail(lines), out)
             ELSE IF Contains(line, ARROW)
             THEN timing_groups(Tail(lines),
                                Append(out, [timing |-> line, text_lines |-> <<>>]))
             ELSE IF out = <<>> THEN timing_groups(Tail(lines), out)
             ELSE timing_groups(Tail(lines),
                                [out EXCEPT ![Len(out)].text_lines = Append(@, line)])

\* The cue of a timing line and its text lines: none without a text line or
\* when the line is not two times around one arrow.
RECURSIVE group_cues(_)
group_cues(groups) ==
    IF groups = <<>> THEN <<>>
    ELSE LET g == groups[1]
             times == split(g.timing, ARROW)
             start_time == vtt_time_to_ms(Strip(times[1]))
             end_time == vtt_time_to_ms(split(Strip(times[2]), << " " >>)[1])
         IN  (IF /\ Len(times) = 2
                 /\ g.text_lines # <<>>
                 /\ ~start_time.raised /\ ~end_time.raised
              THEN << Cue(start_time.value, end_time.value, join(NL, g.text_lines)) >>
              ELSE <<>>)
             \o group_cues(Tail(groups))

\* C22: VTTParser.parse gives the empty track for a text whose first line
\* does not start with WEBVTT; otherwise the track holds, sorted by start, one
\* cue for each timing line that is followed by at least one text line, with
\* exactly the text lines up to the next timing line as its text, the last
\* one included, and no cue twice.
C22_VttCueAssembly ==
    (track_format = "vtt" /\ subtitles # None) =>
        LET lines == split(replace(Strip(content), << "\r", "\n" >>, NL), NL)
        IN  subtitles[1]
            = IF ~StartsWith(lines[1], << "W", "E", "B", "V", "T", "T" >>) THEN <<>>
              ELSE sort_by_start(group_cues(timing_groups(Tail(lines), <<>>)))


\* C23: the custom cue track belongs to the current subtitle file: whenever
\* subtitle_parser is set, subtitle_file is set and the parser was built from
\* that file; and no cue is displayed while no subtitle file is loaded, as
\* after load_video loaded a video for which no subtitle was found.
C23_ParserOfCurrentFile ==
    /\ player.subtitle_parser # None => player.subtitle_parser = player.subtitle_file
    /\ player.subtitle_label # None => player.subtitle_file # None

\* C30: a displayed cue text is formatted exactly once: the markup the label
\* shows is format_subtitle_text applied once to the text of a cue stored in
\* the parser's subtitles list, inside a span.
C30_FormattedOnce ==
    player.subtitle_label # None /\ player.subtitle_parser # None =>
        LET path == player.subtitle_parser[1]
            format == parser_format(path, file_content[path])
            cues == parser_subtitles(path, file_content[path])
        IN  \E i \in 1..Len(cues) :
                player.subtitle_label
                    = Some(span(format_subtitle_text(format, cues[i].text)))

\* C28: clearing subtitles is durable: after on_clear_subtitle_clicked, and
\* until the user loads a subtitle or a video, subtitle_file and
\* subtitle_parser stay null and no cue text is shown, whatever timers fire
\* and however the toggle is switched.
C28_ClearIsDurable ==
    player.cleared =>
        /\ player.subtitle_file = None
        /\ player.subtitle_parser = None
        /\ player.subtitle_label = None
        /\ ~player.subtitle_timer

\* After a clear the toggle is on again while a
\* _check_and_force_subtitle_selection timer scheduled before the clear is
\* still to fire.
C28_ToggledOnTimerPending ==
    /\ player.cleared
    /\ player.subtitles_enabled
    /\ player.check_timers > 0

\* C27: the folder navigation stack tracks the path walked: whenever no load
\* is pending and the stack is not empty, its top is the parent of
\* current_folder.
C27_StackTopIsParent ==
    (/\ ~_loading_folder
     /\ timers = <<>>
     /\ current_folder # None
     /\ folder_navigation_stack # None
     /\ folder_navigation_stack[1] # <<>>)
    => LET stack == folder_navigation_stack[1]
       IN  stack[Len(stack)] = dirname(current_folder[1])

\* C24: progress is recorded under the video actually playing: whenever a
\* step writes a progress record, the window's current_video_path is the
\* player's current_video.
C24_ProgressUnderPlayingVideo ==
    [][progress_data' # progress_data => current_video_path = player.current_video]_vars

\* C25: the end of the stream never lowers recorded progress: the EOS handler
\* leaves every recorded position and percentage at least as high as before.
C25_EosKeepsProgress ==
    [][on_bus_message_EOS =>
           \A v \in DOMAIN progress_data :
               /\ progress_data'[v].position >= progress_data[v].position
               /\ progress_data'[v].percentage >= progress_data[v].percentage]_vars

\* C26: the progress save is debounced to a single pending timer: at most one
\* deferred _save_progress_without_reload timeout is pending.
C26_OneDeferredSave == save_timers <= 1

\* C29: the selection guards are always released: whenever _selecting_video
\* is set it is eventually false again, and whenever _loading_video is set it
\* is eventually false again, given that the reset timers fire.
C29_GuardsReleased ==
    /\ _selecting_video ~> ~_selecting_video
    /\ player._loading_video ~> ~player._loading_video

\* Two selections were handled, the second one's load_video was rejected,
\* and both guards are released.
C29_ReleasedAfterRejectedLoad ==
    /\ selections = 2
    /\ current_video_path # player.current_video
    /\ player.current_video # None
    /\ ~_selecting_video
    /\ ~player._loading_video

=============================================================================
